---- MODULE Spec2Model ----
(***************************************************************************)
(* A model of qiskit_dynamics/builders/dynamical_operators.py:             *)
(* DynamicalOperator expression trees, their flattening into dictionaries  *)
(* (OperatorBuilder.build_dictionaries) and their realization as matrices  *)
(* (OperatorBuilder.build_matrices).                                       *)
(*                                                                         *)
(* Python values are represented as follows.                               *)
(*   complex number  <<re, im>>, a pair of integers (Gaussian integers)    *)
(*   matrix          a sequence of rows, each a sequence of complex        *)
(*   str (s_type)    a sequence of one-character strings                   *)
(*   None / value    <<>> / <<value>>   (None, Some)                       *)
(*   list            a sequence                                            *)
(*   dict            a sequence of entries in insertion order              *)
(*   object          a heap index (DynamicalOperator) or an allocation     *)
(*                   site (DynamicalOperatorKey)                           *)
(***************************************************************************)
EXTENDS Integers, Sequences, FiniteSets, TLC

VARIABLES
    nodes,                  \* the DynamicalOperator objects created so far
    self_ids,               \* OperatorBuilder._ids
    self_identity_matrices, \* OperatorBuilder._identity_matrices
    self_subsystems,        \* OperatorBuilder._subsystems
    self_total_dim,         \* OperatorBuilder._total_dim
    self_dyn_op,            \* OperatorBuilder._dyn_op
    ncalls,                 \* the number of OperatorBuilder calls made
    self_operator_collection,  \* LindbladModel._operator_collection
    self_evaluation_mode,      \* LindbladModel._evaluation_mode
    self_hamiltonian_signals,  \* LindbladModel._hamiltonian_signals
    self_dissipator_signals,   \* LindbladModel._dissipator_signals
    self_sim_def,           \* LindbladMPOSimulationBuilder.sim_def
    solver_params,          \* LindbladMPOSimulationBuilder.solver_params
    call,                   \* the latest operation and its arguments
    ret                     \* what the latest operation returned or raised

vars == <<nodes, self_ids, self_identity_matrices, self_subsystems,
          self_total_dim, self_dyn_op, ncalls, self_operator_collection,
          self_evaluation_mode, self_hamiltonian_signals, self_dissipator_signals,
          self_sim_def, solver_params, call, ret>>

builder == <<self_ids, self_identity_matrices, self_subsystems,
             self_total_dim, self_dyn_op>>

lindblad_model == <<self_operator_collection, self_evaluation_mode,
                    self_hamiltonian_signals, self_dissipator_signals>>

mpo_builder == <<self_sim_def, solver_params>>

----------------------------------------------------------------------------
(* Bounds and input sets *)

\* No operation creates a DynamicalOperator once this many exist (a
\* subtraction creates two, so that a run holds at most one more).
MaxNodes == 3

\* The largest number of OperatorBuilder calls in one run.
MaxCalls == 1

\* The subsystem identifiers are the strings "0" and "1" (system_id is any
\* hashable value, and its default is the string '').

None == <<>>
Some(v) == <<v>>

----------------------------------------------------------------------------
(* Strings *)

UpperCase ==
    <<"A", "B", "C", "D", "E", "F", "G", "H", "I", "J", "K", "L", "M",
      "N", "O", "P", "Q", "R", "S", "T", "U", "V", "W", "X", "Y", "Z">>

LowerCase ==
    <<"a", "b", "c", "d", "e", "f", "g", "h", "i", "j", "k", "l", "m",
      "n", "o", "p", "q", "r", "s", "t", "u", "v", "w", "x", "y", "z">>

\* str.lower() on one character.
lower_char(c) ==
    IF \E i \in 1..26 : UpperCase[i] = c
    THEN LowerCase[CHOOSE i \in 1..26 : UpperCase[i] = c]
    ELSE c

\* str.lower()
lower(s) == [i \in 1..Len(s) |-> lower_char(s[i])]

\* The leaf operators of a run: <<system_id, s_type>>.
Leaves ==
    {<<"0", <<"x">>>>, <<"0", <<"S", "X">>>>, <<"0", <<"z">>>>, <<"1", <<"z">>>>}

----------------------------------------------------------------------------
(* Complex scalars *)

CZero == <<0, 0>>
COne == <<1, 0>>

CAdd(a, b) == <<a[1] + b[1], a[2] + b[2]>>
CMul(a, b) == <<a[1] * b[1] - a[2] * b[2], a[1] * b[2] + a[2] * b[1]>>

\* An argument of an arithmetic operator: a DynamicalOperator (by reference)
\* or a Python scalar of the given type.
NodeArg(n) == [type |-> "DynamicalOperator", ref |-> n, val |-> CZero]
ScalarArg(t, re, im) == [type |-> t, ref |-> 0, val |-> <<re, im>>]

\* The scalars the operators are multiplied by.
Scalars == {ScalarArg("int", 2, 0), ScalarArg("complex", 0, 1)}

\* An operand that is neither a DynamicalOperator nor a scalar, by its type.
ObjectArg(t) == [type |-> t, ref |-> 0, val |-> CZero]

\* The operands of the types the arithmetic operators do not support.
Unsupported == {ObjectArg("str"), ObjectArg("bool")}

----------------------------------------------------------------------------
(* DynamicalOperator *)

\* dict.get(key, default) on a TLA+ function
Get(d, k, default) == IF k \in DOMAIN d THEN d[k] ELSE default

DEFAULT_ALIASES ==
    (<<"i", "d">> :> <<"i">>) @@ (<<"s", "x">> :> <<"x">>) @@
    (<<"s", "y">> :> <<"y">>) @@ (<<"s", "z">> :> <<"z">>)

\* A table of aliases a caller passes to DynamicalOperator.
user_aliases == (<<"p", "x">> :> <<"x">>) @@ (<<"p", "z">> :> <<"z">>)

\* The alias tables that exist, by name; a node holds the name (a reference).
AliasTables == [DEFAULT_ALIASES |-> DEFAULT_ALIASES, user_aliases |-> user_aliases]

\* The s_type setter: the unique type of a declared type.
s_type_setter(aliases, s_type) ==
    LET lowered == lower(s_type)
    IN  Get(AliasTables[aliases], lowered, lowered)

\* DynamicalOperator.__init__ with aliases = None
DynamicalOperator(system_id, s_type) ==
    [system_id     |-> system_id,
     s_type        |-> s_type,
     s_type_unique |-> s_type_setter("DEFAULT_ALIASES", s_type),
     aliases       |-> "DEFAULT_ALIASES",
     compound_type |-> "",
     compound_ops  |-> None]

\* DynamicalOperator.__init__ with an alias table (by name)
DynamicalOperatorWithAliases(system_id, s_type, aliases) ==
    [system_id     |-> system_id,
     s_type        |-> s_type,
     s_type_unique |-> s_type_setter(aliases, s_type),
     aliases       |-> aliases,
     compound_type |-> "",
     compound_ops  |-> None]

\* DynamicalOperator.new_operator
new_operator_default_aliases(self) == DynamicalOperator("", <<>>)

new_operator(self) ==
    [system_id     |-> "",
     s_type        |-> <<>>,
     s_type_unique |-> s_type_setter(self.aliases, <<>>),
     aliases       |-> self.aliases,
     compound_type |-> "",
     compound_ops  |-> None]

IsScalarType(t) == t \in {"complex", "float", "int"}

\* DynamicalOperator.__mul__: the node built, or <<>> when it raises.
mul_scalar_first(h, self, other) ==
    IF other.type = "DynamicalOperator"
    THEN Some([new_operator(h[self]) EXCEPT
                 !.compound_type = "@",
                 !.compound_ops = Some(<<NodeArg(self), other>>)])
    ELSE IF IsScalarType(other.type)
    THEN Some([new_operator(h[self]) EXCEPT
                 !.compound_type = "*",
                 !.compound_ops = Some(<<other, NodeArg(self)>>)])
    ELSE None

mul(h, self, other) ==
    IF other.type = "DynamicalOperator"
    THEN Some([new_operator(h[self]) EXCEPT
                 !.compound_type = "@",
                 !.compound_ops = Some(<<NodeArg(self), other>>)])
    ELSE IF IsScalarType(other.type)
    THEN Some([new_operator(h[self]) EXCEPT
                 !.compound_type = "*",
                 !.compound_ops = Some(<<NodeArg(self), other>>)])
    ELSE None

\* DynamicalOperator.__rmul__
rmul(h, self, other) == mul(h, self, other)

\* DynamicalOperator.__add__
add_accepts_any(h, self, other) ==
    Some([new_operator(h[self]) EXCEPT
            !.compound_type = "+",
            !.compound_ops = Some(<<NodeArg(self), other>>)])

add(h, self, other) ==
    IF other.type # "DynamicalOperator"
    THEN None
    ELSE Some([new_operator(h[self]) EXCEPT
                 !.compound_type = "+",
                 !.compound_ops = Some(<<NodeArg(self), other>>)])

\* DynamicalOperator.__neg__
neg_positive(h, self) == rmul(h, self, ScalarArg("float", 1, 0))

neg(h, self) == rmul(h, self, ScalarArg("float", -1, 0))

\* DynamicalOperator.__sub__ for a DynamicalOperator other: the heap with the
\* node -other and, after it, the node self + (-other).
sub(h, self, other) ==
    LET negated == Append(h, neg(h, other)[1])
    IN  Append(negated, add(negated, self, NodeArg(Len(negated)))[1])

\* DynamicalOperator.__pos__
pos(h, self) == self

----------------------------------------------------------------------------
(* Outcomes of an operation: a returned value or a raised exception *)

Return(kind, v) == [kind |-> kind, error |-> "", info |-> <<>>, value |-> v]
Raise(e, info) == [kind |-> "raise", error |-> e, info |-> info, value |-> <<>>]

----------------------------------------------------------------------------
(* DynamicalOperatorKey and dictionaries keyed by tuples of keys *)

\* DynamicalOperatorKey.__init__; obj is the identity of the new object (the
\* place in the flattening where it is allocated).
DynamicalOperatorKey(op, obj) ==
    [obj |-> obj, system_id |-> op.system_id, s_type_unique |-> op.s_type_unique]

\* DynamicalOperatorKey.__hash__
key_hash(k) == <<k.system_id, k.s_type_unique>>

\* DynamicalOperatorKey defines no __eq__: the keys are equal when they are
\* the same object.
key_eq(a, b) == a.obj = b.obj

\* hash and == of tuples of keys
tuple_hash(t) == [i \in 1..Len(t) |-> key_hash(t[i])]
tuple_eq(s, t) == Len(s) = Len(t) /\ \A i \in 1..Len(s) : key_eq(s[i], t[i])

\* The positions of a key tuple in a dict (at most one).
dict_find(d, key) ==
    {i \in 1..Len(d) : tuple_hash(d[i].key) = tuple_hash(key) /\ tuple_eq(d[i].key, key)}

\* dict.get(key, default)
dict_get(d, key, default) ==
    IF dict_find(d, key) = {} THEN default
    ELSE d[CHOOSE i \in dict_find(d, key) : TRUE].val

\* d[key] = val
dict_set(d, key, val) ==
    IF dict_find(d, key) = {} THEN Append(d, [key |-> key, val |-> val])
    ELSE [d EXCEPT ![CHOOSE i \in dict_find(d, key) : TRUE].val = val]

----------------------------------------------------------------------------
(* OperatorBuilder.build_dictionaries *)

RECURSIVE build_one_dict(_, _, _)
RECURSIVE sum_loop(_, _, _, _, _)
RECURSIVE sum_items(_, _, _)
RECURSIVE product_loop(_, _, _, _, _, _)
RECURSIVE product_items(_, _, _)

\* _build_one_dict applied to an element of compound_ops
build_arg(h, arg, obj) ==
    IF arg.type = "DynamicalOperator"
    THEN build_one_dict(h, arg.ref, obj)
    ELSE Raise("AttributeError", <<arg.type, "compound_type">>)

\* '+': for key, val in op_dict.items(): result[key] = val + result.get(key, 0)
sum_items(result, op_dict, j) ==
    IF j > Len(op_dict) THEN result
    ELSE LET key == op_dict[j].key
             val_sum == CAdd(op_dict[j].val, dict_get(result, key, CZero))
         IN  sum_items(dict_set(result, key, val_sum), op_dict, j + 1)

\* '+': for op in operator.compound_ops
sum_loop(h, ops, i, obj, result) ==
    IF i > Len(ops) THEN Return("dict", result)
    ELSE LET op_dict == build_arg(h, ops[i], Append(obj, i))
         IN  IF op_dict.kind = "raise" THEN op_dict
             ELSE sum_loop(h, ops, i + 1, obj, sum_items(result, op_dict.value, 1))

\* '@': for key, val in op_dict.items(): new_key gets the elements of key
\* appended, new_val *= val
product_items(acc, op_dict, j) ==
    IF j > Len(op_dict) THEN acc
    ELSE product_items([new_key |-> acc.new_key \o op_dict[j].key,
                        new_val |-> CMul(acc.new_val, op_dict[j].val)],
                       op_dict, j + 1)

\* '@': for op in operator.compound_ops
product_loop(h, ops, i, obj, new_key, new_val) ==
    IF i > Len(ops)
    THEN Return("dict", <<[key |-> new_key, val |-> new_val]>>)
    ELSE LET op_dict == build_arg(h, ops[i], Append(obj, i))
         IN  IF op_dict.kind = "raise" THEN op_dict
             ELSE LET acc == product_items([new_key |-> new_key, new_val |-> new_val],
                                           op_dict.value, 1)
                  IN  product_loop(h, ops, i + 1, obj, acc.new_key, acc.new_val)

\* '*': op_dict[key] = val * scalar for every key
scalar_items_unscaled(op_dict, scalar) == op_dict

scalar_items(op_dict, scalar) ==
    [j \in 1..Len(op_dict) |->
        [key |-> op_dict[j].key, val |-> CMul(op_dict[j].val, scalar)]]

\* OperatorBuilder._build_one_dict
build_one_dict_skips_unknown(h, n, obj) ==
    LET operator == h[n]
    IN  IF operator.compound_type = "+"
        THEN sum_loop(h, operator.compound_ops[1], 1, obj, <<>>)
        ELSE IF operator.compound_type = "@"
        THEN product_loop(h, operator.compound_ops[1], 1, obj, <<>>, COne)
        ELSE IF operator.compound_type = "*"
        THEN LET op == operator.compound_ops[1][1]
                 scalar == operator.compound_ops[1][2]
                 op_dict == build_arg(h, op, Append(obj, 1))
             IN  IF op_dict.kind = "raise" THEN op_dict
                 ELSE Return("dict", scalar_items(op_dict.value, scalar.val))
        ELSE IF operator.compound_type = ""
        THEN Return("dict", <<[key |-> <<DynamicalOperatorKey(operator, obj)>>,
                               val |-> COne]>>)
        ELSE Return("dict", <<>>)

build_one_dict(h, n, obj) ==
    LET operator == h[n]
    IN  IF operator.compound_type = "+"
        THEN sum_loop(h, operator.compound_ops[1], 1, obj, <<>>)
        ELSE IF operator.compound_type = "@"
        THEN product_loop(h, operator.compound_ops[1], 1, obj, <<>>, COne)
        ELSE IF operator.compound_type = "*"
        THEN LET op == operator.compound_ops[1][1]
                 scalar == operator.compound_ops[1][2]
                 op_dict == build_arg(h, op, Append(obj, 1))
             IN  IF op_dict.kind = "raise" THEN op_dict
                 ELSE Return("dict", scalar_items(op_dict.value, scalar.val))
        ELSE IF operator.compound_type = ""
        THEN Return("dict", <<[key |-> <<DynamicalOperatorKey(operator, obj)>>,
                               val |-> COne]>>)
        ELSE Raise("Unknown/unsupported concatenation operator",
                   <<operator.compound_type>>)

RECURSIVE build_dicts_loop(_, _, _, _)
\* build_dictionaries: for op in operators: results.append(_build_one_dict(op))
build_dicts_loop(h, operators, i, results) ==
    IF i > Len(operators) THEN Return("list", results)
    ELSE LET d == build_arg(h, operators[i], <<i>>)
         IN  IF d.kind = "raise" THEN d
             ELSE build_dicts_loop(h, operators, i + 1, Append(results, d.value))

\* An operators argument: one object (is_list = FALSE, one item) or a list.
One(item) == [is_list |-> FALSE, items |-> <<item>>]
List(items) == [is_list |-> TRUE, items |-> items]

\* OperatorBuilder.build_dictionaries
build_dictionaries_flatten_singleton(h, operators) ==
    LET results == build_dicts_loop(h, operators.items, 1, <<>>)
    IN  IF results.kind = "raise" THEN results
        ELSE IF Len(results.value) = 1 THEN Return("dict", results.value[1])
        ELSE results

build_dictionaries(h, operators) ==
    LET b_flatten == ~operators.is_list
        results == build_dicts_loop(h, operators.items, 1, <<>>)
    IN  IF results.kind = "raise" THEN results
        ELSE IF b_flatten THEN Return("dict", results.value[1])
        ELSE results

----------------------------------------------------------------------------
(* Matrices (numpy arrays of complex) *)

Rows(m) == Len(m)
Cols(m) == IF Len(m) = 0 THEN 0 ELSE Len(m[1])

\* np.zeros((dim, dim), complex)
np_zeros(dim) == [i \in 1..dim |-> [j \in 1..dim |-> CZero]]

\* np.identity(dim, complex)
np_identity(dim) == [i \in 1..dim |-> [j \in 1..dim |-> IF i = j THEN COne ELSE CZero]]

RECURSIVE dot(_, _, _, _, _)
\* sum over k of a[i][k] * b[k][j]
dot(a, b, i, j, k) ==
    IF k = 0 THEN CZero
    ELSE CAdd(dot(a, b, i, j, k - 1), CMul(a[i][k], b[k][j]))

\* a @ b
matmul(a, b) == [i \in 1..Rows(a) |-> [j \in 1..Cols(b) |-> dot(a, b, i, j, Cols(a))]]

\* val * m
scale(val, m) == [i \in 1..Rows(m) |-> [j \in 1..Cols(m) |-> CMul(val, m[i][j])]]

\* a + b for arrays of one shape
mat_add(a, b) == [i \in 1..Rows(a) |-> [j \in 1..Cols(a) |-> CAdd(a[i][j], b[i][j])]]

\* np.kron(a, b): the index of a is the outer (slower) one
np_kron(a, b) ==
    [r \in 1..(Rows(a) * Rows(b)) |->
        [c \in 1..(Cols(a) * Cols(b)) |->
            CMul(a[((r - 1) \div Rows(b)) + 1][((c - 1) \div Cols(b)) + 1],
                 b[((r - 1) % Rows(b)) + 1][((c - 1) % Cols(b)) + 1])]]

\* DynamicalOperator.get_kron_matrix
get_kron_matrix_swapped(left_matrix, right_matrix) == np_kron(right_matrix, left_matrix)

get_kron_matrix(left_matrix, right_matrix) == np_kron(left_matrix, right_matrix)

\* The elementary matrices of get_operator_matrix at dimension 2.
I2 == <<<<COne, CZero>>, <<CZero, COne>>>>
X2 == <<<<CZero, COne>>, <<COne, CZero>>>>
Y2 == <<<<CZero, <<0, -1>>>>, <<<<0, 1>>, CZero>>>>
Z2 == <<<<COne, CZero>>, <<CZero, <<-1, 0>>>>>>
Sp2 == <<<<CZero, COne>>, <<CZero, CZero>>>>
Sm2 == <<<<CZero, CZero>>, <<COne, CZero>>>>
P0 == <<<<COne, CZero>>, <<CZero, CZero>>>>
P1 == <<<<CZero, CZero>>, <<CZero, COne>>>>

\* DynamicalOperator.get_operator_matrix
get_operator_matrix_default_identity(s_type_unique, dim) ==
    IF s_type_unique = <<"n", "u", "l", "l">> THEN Return("matrix", np_zeros(dim))
    ELSE IF dim = 2 /\ s_type_unique = <<"x">> THEN Return("matrix", X2)
    ELSE IF dim = 2 /\ s_type_unique = <<"y">> THEN Return("matrix", Y2)
    ELSE IF dim = 2 /\ s_type_unique = <<"z">> THEN Return("matrix", Z2)
    ELSE IF dim = 2 /\ s_type_unique = <<"s", "p">> THEN Return("matrix", Sp2)
    ELSE IF dim = 2 /\ s_type_unique = <<"s", "m">> THEN Return("matrix", Sm2)
    ELSE IF dim = 2 /\ s_type_unique = <<"0">> THEN Return("matrix", P0)
    ELSE IF dim = 2 /\ s_type_unique = <<"1">> THEN Return("matrix", P1)
    ELSE Return("matrix", np_identity(dim))

get_operator_matrix(s_type_unique, dim) ==
    IF s_type_unique = <<"n", "u", "l", "l">> THEN Return("matrix", np_zeros(dim))
    ELSE IF dim = 2 /\ s_type_unique = <<"i">> THEN Return("matrix", np_identity(dim))
    ELSE IF dim = 2 /\ s_type_unique = <<"x">> THEN Return("matrix", X2)
    ELSE IF dim = 2 /\ s_type_unique = <<"y">> THEN Return("matrix", Y2)
    ELSE IF dim = 2 /\ s_type_unique = <<"z">> THEN Return("matrix", Z2)
    ELSE IF dim = 2 /\ s_type_unique = <<"s", "p">> THEN Return("matrix", Sp2)
    ELSE IF dim = 2 /\ s_type_unique = <<"s", "m">> THEN Return("matrix", Sm2)
    ELSE IF dim = 2 /\ s_type_unique = <<"0">> THEN Return("matrix", P0)
    ELSE IF dim = 2 /\ s_type_unique = <<"1">> THEN Return("matrix", P1)
    ELSE Raise("Operator type unknown or unsupported for matrix generation",
               <<s_type_unique, dim>>)

\* DynamicalOperator.get_zeros_matrix
get_zeros_matrix(dim) == get_operator_matrix(<<"n", "u", "l", "l">>, dim).value

----------------------------------------------------------------------------
(* Subsystem maps (OrderedDict): sequences of <<system_id, dim>> *)

\* subsystems.get(system_id, None)
subsystems_get_default_two(subsystems, system_id) ==
    IF \E i \in 1..Len(subsystems) : subsystems[i][1] = system_id
    THEN Some(subsystems[CHOOSE i \in 1..Len(subsystems) : subsystems[i][1] = system_id][2])
    ELSE Some(2)

subsystems_get(subsystems, system_id) ==
    IF \E i \in 1..Len(subsystems) : subsystems[i][1] = system_id
    THEN Some(subsystems[CHOOSE i \in 1..Len(subsystems) : subsystems[i][1] = system_id][2])
    ELSE None

\* list(subsystems.keys()), list(subsystems.values())
keys_of(subsystems) == [i \in 1..Len(subsystems) |-> subsystems[i][1]]
values_of(subsystems) == [i \in 1..Len(subsystems) |-> subsystems[i][2]]

----------------------------------------------------------------------------
(* OperatorBuilder.build_matrices *)

\* A pre-flattened dictionary given as an element of the operators argument.
DictArg(d) == [type |-> "dict", ref |-> 0, val |-> d]

\* The fields of an OperatorBuilder.
Builder(ids, identity_matrices, subsystems, total_dim, dyn_op) ==
    [ids |-> ids, identity_matrices |-> identity_matrices,
     subsystems |-> subsystems, total_dim |-> total_dim, dyn_op |-> dyn_op]

\* OperatorBuilder.__init__
OperatorBuilder == Builder(None, None, None, 0, None)

RECURSIVE key_loop(_, _, _, _)
\* _build_one_matrix: for key_element in key; the sub_matrices dict at the end
key_loop_reversed(b, key, j, sub_matrices) ==
    IF j > Len(key) THEN Return("sub_matrices", sub_matrices)
    ELSE LET operator_key == key[j]
             dim == subsystems_get(b.subsystems[1], operator_key.system_id)
         IN  IF dim = None
             THEN Raise("An operator was defined with an id that does not appear in the subsystems parameter",
                        <<operator_key.system_id>>)
             ELSE LET made == get_operator_matrix(operator_key.s_type_unique, dim[1])
                  IN  IF made.kind = "raise" THEN made
                      ELSE LET new_sub_matrix ==
                                   IF operator_key.system_id \in DOMAIN sub_matrices
                                   THEN matmul(made.value, sub_matrices[operator_key.system_id])
                                   ELSE made.value
                           IN  key_loop(b, key, j + 1,
                                   (operator_key.system_id :> new_sub_matrix) @@ sub_matrices)

key_loop(b, key, j, sub_matrices) ==
    IF j > Len(key) THEN Return("sub_matrices", sub_matrices)
    ELSE LET operator_key == key[j]
             dim == subsystems_get(b.subsystems[1], operator_key.system_id)
         IN  IF dim = None
             THEN Raise("An operator was defined with an id that does not appear in the subsystems parameter",
                        <<operator_key.system_id>>)
             ELSE LET made == get_operator_matrix(operator_key.s_type_unique, dim[1])
                  IN  IF made.kind = "raise" THEN made
                      ELSE LET new_sub_matrix ==
                                   IF operator_key.system_id \in DOMAIN sub_matrices
                                   THEN matmul(sub_matrices[operator_key.system_id], made.value)
                                   ELSE made.value
                           IN  key_loop(b, key, j + 1,
                                   (operator_key.system_id :> new_sub_matrix) @@ sub_matrices)

RECURSIVE kron_loop(_, _, _, _)
\* _build_one_matrix: for i in range(n_subsystems); op_matrix at the end
kron_loop(b, sub_matrices, i, op_matrix) ==
    IF i > Len(b.ids[1]) THEN op_matrix
    ELSE LET sub_matrix == Get(sub_matrices, b.ids[1][i], b.identity_matrices[1][i])
         IN  kron_loop(b, sub_matrices, i + 1,
                       IF i = 1 THEN sub_matrix ELSE get_kron_matrix(op_matrix, sub_matrix))

RECURSIVE term_loop(_, _, _, _)
\* _build_one_matrix: for key, val in operator_dict.items()
term_loop(b, operator_dict, t, matrix) ==
    IF t > Len(operator_dict) THEN Return("matrix", matrix)
    ELSE LET subs == key_loop(b, operator_dict[t].key, 1, <<>>)
         IN  IF subs.kind = "raise" THEN subs
             ELSE LET op_matrix == kron_loop(b, subs.value, 1, <<>>)
                  IN  IF Rows(op_matrix) # Rows(matrix)
                      THEN Raise("ValueError", <<Rows(matrix), Rows(op_matrix)>>)
                      ELSE term_loop(b, operator_dict, t + 1,
                                     mat_add(matrix, scale(operator_dict[t].val, op_matrix)))

\* OperatorBuilder._build_one_matrix
build_one_matrix(b, operator_dict) ==
    IF operator_dict.type # "dict"
    THEN Raise("AttributeError", <<operator_dict.type, "items">>)
    ELSE term_loop(b, operator_dict.val, 1, get_zeros_matrix(b.total_dim))

RECURSIVE total_dim_loop_all_dims(_, _)
RECURSIVE total_dim_loop(_, _)
\* build_matrices: the product of the dimensions that are > 0
total_dim_loop_all_dims(dims, i) ==
    IF i = 0 THEN 1 ELSE total_dim_loop_all_dims(dims, i - 1) * dims[i]

total_dim_loop(dims, i) ==
    IF i = 0 THEN 1
    ELSE IF dims[i] > 0 THEN total_dim_loop(dims, i - 1) * dims[i]
    ELSE total_dim_loop(dims, i - 1)

RECURSIVE check_types_never_dict(_, _, _)
RECURSIVE check_types(_, _, _)
\* build_matrices: "Verify operator types are known and identical"
check_types_never_dict(operators, i, b_dictionaries) ==
    IF i > Len(operators) THEN Return("bool", FALSE)
    ELSE IF operators[i].type = "dict"
    THEN check_types_never_dict(operators, i + 1, TRUE)
    ELSE IF operators[i].type # "DynamicalOperator"
    THEN Raise("Unsupported class type in parameter operators", <<operators[i].type>>)
    ELSE IF b_dictionaries
    THEN Raise("All operators must be of the same type", <<>>)
    ELSE check_types_never_dict(operators, i + 1, b_dictionaries)

check_types(operators, i, b_dictionaries) ==
    IF i > Len(operators) THEN Return("bool", b_dictionaries)
    ELSE IF operators[i].type = "dict" THEN check_types(operators, i + 1, TRUE)
    ELSE IF operators[i].type # "DynamicalOperator"
    THEN Raise("Unsupported class type in parameter operators", <<operators[i].type>>)
    ELSE IF b_dictionaries
    THEN Raise("All operators must be of the same type", <<>>)
    ELSE check_types(operators, i + 1, b_dictionaries)

RECURSIVE identity_loop_positive_dims(_, _, _)
\* build_matrices with the identity matrices of the dimensions > 0 only
identity_loop_positive_dims(dims, i, identity_matrices) ==
    IF i > Len(dims) THEN [list |-> identity_matrices, raised |-> None]
    ELSE IF dims[i] = 0
    THEN identity_loop_positive_dims(dims, i + 1, identity_matrices)
    ELSE LET made == get_operator_matrix(<<"i">>, dims[i])
         IN  IF made.kind = "raise"
             THEN [list |-> identity_matrices, raised |-> Some(made)]
             ELSE identity_loop_positive_dims(dims, i + 1,
                                              Append(identity_matrices, made.value))

RECURSIVE identity_loop(_, _, _)
\* build_matrices: for dim in dims: _identity_matrices.append(...); the list
\* built and, when get_operator_matrix raised, the exception
identity_loop(dims, i, identity_matrices) ==
    IF i > Len(dims) THEN [list |-> identity_matrices, raised |-> None]
    ELSE LET made == get_operator_matrix(<<"i">>, dims[i])
         IN  IF made.kind = "raise"
             THEN [list |-> identity_matrices, raised |-> Some(made)]
             ELSE identity_loop(dims, i + 1, Append(identity_matrices, made.value))

RECURSIVE results_loop(_, _, _, _)
\* build_matrices: for op_dict in operators_dict: results.append(...)
results_loop(b, operators_dict, i, results) ==
    IF i > Len(operators_dict) THEN Return("list", results)
    ELSE LET m == build_one_matrix(b, operators_dict[i])
         IN  IF m.kind = "raise" THEN m
             ELSE results_loop(b, operators_dict, i + 1, Append(results, m.value))

\* build_matrices, lines 326-330: the results of the loop, or the first of them
\* when operators was no list
build_matrices_results(b, b_flatten, results) ==
    IF results.kind = "raise" THEN [ret |-> results, self |-> b]
    ELSE IF b_flatten THEN [ret |-> Return("matrix", results.value[1]), self |-> b]
    ELSE [ret |-> results, self |-> b]

\* build_matrices, lines 324-327: the identity matrices, then the results
build_matrices_identities(b, operators_dict, b_flatten, identities) ==
    IF identities.raised # None
    THEN [ret |-> identities.raised[1],
          self |-> [b EXCEPT !.identity_matrices = Some(identities.list)]]
    ELSE build_matrices_results(
             [b EXCEPT !.identity_matrices = Some(identities.list)], b_flatten,
             results_loop([b EXCEPT !.identity_matrices = Some(identities.list)],
                          operators_dict, 1, <<>>))

\* build_matrices, lines 319-325: operators_dict, then the identity matrices
build_matrices_flattened(b, dims, b_flatten, b_dictionaries, flattened) ==
    IF flattened.kind = "raise" THEN [ret |-> flattened, self |-> b]
    ELSE build_matrices_identities(
             b,
             [i \in 1..Len(flattened.value) |->
                 IF b_dictionaries THEN flattened.value[i]
                 ELSE DictArg(flattened.value[i])],
             b_flatten, identity_loop(dims, 1, <<>>))

\* build_matrices, lines 303-322: after the type check, the fields _subsystems,
\* _ids and _identity_matrices are set and the operators flattened
build_matrices_checked(h, b, operators, subsystems, checked) ==
    IF checked.kind = "raise" THEN [ret |-> checked, self |-> b]
    ELSE build_matrices_flattened(
             [b EXCEPT !.subsystems = Some(subsystems),
                       !.ids = Some(keys_of(subsystems)),
                       !.identity_matrices = Some(<<>>)],
             values_of(subsystems), ~operators.is_list, checked.value,
             IF checked.value THEN Return("list", operators.items)
             ELSE build_dictionaries(h, List(operators.items)))

\* build_matrices, lines 301-312: the empty list, then the type check
build_matrices_sized(h, b, operators, subsystems) ==
    IF Len(operators.items) = 0
    THEN [ret |-> Return("matrix", get_zeros_matrix(b.total_dim)), self |-> b]
    ELSE build_matrices_checked(h, b, operators, subsystems,
                                check_types(operators.items, 1, FALSE))

\* build_matrices with a total dimension that is computed once and kept
build_matrices_keeps_total_dim(h, b, operators, subsystems, dyn_op) ==
    IF Len(subsystems) = 0 THEN [ret |-> Return("None", <<>>), self |-> b]
    ELSE build_matrices_sized(
             h,
             [b EXCEPT !.dyn_op = IF dyn_op = None THEN Some("DynamicalOperator")
                                  ELSE dyn_op,
                       !.total_dim = IF b.total_dim > 0 THEN b.total_dim
                                     ELSE total_dim_loop(values_of(subsystems),
                                                         Len(subsystems))],
             operators, subsystems)

\* OperatorBuilder.build_matrices on the builder b: what it returns or raises
\* (ret) and the builder's fields afterwards (self).
build_matrices(h, b, operators, subsystems, dyn_op) ==
    IF Len(subsystems) = 0 THEN [ret |-> Return("None", <<>>), self |-> b]
    ELSE build_matrices_sized(
             h,
             [b EXCEPT !.dyn_op = IF dyn_op = None THEN Some("DynamicalOperator")
                                  ELSE dyn_op,
                       !.total_dim = total_dim_loop(values_of(subsystems),
                                                    Len(subsystems))],
             operators, subsystems)

----------------------------------------------------------------------------
(* The operations of a run and their inputs *)

\* The subsystem maps build_matrices is called with.
SubsystemMaps ==
    {<<>>,
     <<<<"0", 2>>>>,
     <<<<"0", 2>>, <<"1", 2>>>>,
     <<<<"1", 2>>, <<"0", 2>>>>,
     <<<<"0", 2>>, <<"1", 0>>>>,
     <<<<"0", 3>>>>}

\* The dictionary build_dictionaries returns for the node n.
DictOf(h, n) == DictArg(build_dictionaries(h, One(NodeArg(n))).value)

\* The node created last and the one before it (the same when there is one).
Last(h) == Len(h)
Prev(h) == IF Len(h) > 1 THEN Len(h) - 1 ELSE Len(h)

\* The operators arguments of build_dictionaries: the node created last, alone
\* or in a list.
DictionaryInputs(h) ==
    {List(<<>>)} \cup
    (IF Len(h) = 0 THEN {}
     ELSE {One(NodeArg(Last(h))), List(<<NodeArg(Last(h))>>),
           List(<<NodeArg(Prev(h)), NodeArg(Last(h))>>)})

\* The operators arguments of build_matrices: nodes, their dictionaries, and
\* lists of them.
MatrixInputsOf(prev, last, prev_dict, last_dict) ==
    {One(last), One(last_dict), List(<<last>>), List(<<prev, last>>),
     List(<<prev_dict, last_dict>>), List(<<prev, last_dict>>),
     List(<<prev_dict, last>>)}

MatrixInputs(h) ==
    {List(<<>>)} \cup
    (IF Len(h) = 0 THEN {}
     ELSE MatrixInputsOf(NodeArg(Prev(h)), NodeArg(Last(h)),
                         DictOf(h, Prev(h)), DictOf(h, Last(h))))

Call(fn, self, other, operators, subsystems) ==
    [fn |-> fn, self |-> self, other |-> other, operators |-> operators,
     subsystems |-> subsystems]

NoArg == NodeArg(0)

Init ==
    /\ nodes = <<>>
    /\ self_ids = OperatorBuilder.ids
    /\ self_identity_matrices = OperatorBuilder.identity_matrices
    /\ self_subsystems = OperatorBuilder.subsystems
    /\ self_total_dim = OperatorBuilder.total_dim
    /\ self_dyn_op = OperatorBuilder.dyn_op
    /\ ncalls = 0
    /\ self_operator_collection = None
    /\ self_evaluation_mode = None
    /\ self_hamiltonian_signals = [type |-> "NoneType", items |-> <<>>]
    /\ self_dissipator_signals = [type |-> "NoneType", items |-> <<>>]
    /\ self_sim_def = None
    /\ solver_params = None
    /\ call = Call("OperatorBuilder", 0, NoArg, List(<<>>), <<>>)
    /\ ret = Return("None", <<>>)

\* A new node is stored; an arithmetic operator that raises stores nothing.
Store_in_place(fn, self, other, made) ==
    /\ call' = Call(fn, self, other, List(<<>>), <<>>)
    /\ IF made = None
       THEN /\ nodes' = nodes
            /\ ret' = Raise("Exception", <<fn>>)
       ELSE IF self = 0
       THEN /\ nodes' = Append(nodes, made[1])
            /\ ret' = Return("node", Len(nodes) + 1)
       ELSE /\ nodes' = [nodes EXCEPT ![self] = made[1]]
            /\ ret' = Return("node", self)
    /\ UNCHANGED <<builder, ncalls, lindblad_model, mpo_builder>>

Store(fn, self, other, made) ==
    /\ call' = Call(fn, self, other, List(<<>>), <<>>)
    /\ IF made = None
       THEN /\ nodes' = nodes
            /\ ret' = Raise("Exception", <<fn>>)
       ELSE /\ nodes' = Append(nodes, made[1])
            /\ ret' = Return("node", Len(nodes) + 1)
    /\ UNCHANGED <<builder, ncalls, lindblad_model, mpo_builder>>

\* DynamicalOperator(system_id, s_type)
Construct(system_id, s_type) ==
    /\ Len(nodes) < MaxNodes
    /\ Store("__init__", 0, NoArg, Some(DynamicalOperator(system_id, s_type)))

\* nodes[self] + other
Add(self, other) ==
    /\ Len(nodes) < MaxNodes
    /\ Store("__add__", self, other, add(nodes, self, other))

\* nodes[self] * other
Mul(self, other) ==
    /\ Len(nodes) < MaxNodes
    /\ Store("__mul__", self, other, mul(nodes, self, other))

\* other * nodes[self], for a scalar other
RMul(self, other) ==
    /\ Len(nodes) < MaxNodes
    /\ Store("__rmul__", self, other, rmul(nodes, self, other))

\* -nodes[self]
Neg(self) ==
    /\ Len(nodes) < MaxNodes
    /\ Store("__neg__", self, NoArg, neg(nodes, self))

\* nodes[self] - nodes[other]: two new nodes, -nodes[other] and the sum
Sub(self, other) ==
    /\ Len(nodes) < MaxNodes
    /\ call' = Call("__sub__", self, NodeArg(other), List(<<>>), <<>>)
    /\ nodes' = sub(nodes, self, other)
    /\ ret' = Return("node", Len(nodes) + 2)
    /\ UNCHANGED <<builder, ncalls, lindblad_model, mpo_builder>>

\* +nodes[self]
Pos(self) ==
    /\ call' = Call("__pos__", self, NoArg, List(<<>>), <<>>)
    /\ ret' = Return("node", pos(nodes, self))
    /\ UNCHANGED <<nodes, builder, ncalls, lindblad_model, mpo_builder>>

\* OperatorBuilder.build_dictionaries(operators)
BuildDictionaries(operators) ==
    /\ ncalls < MaxCalls
    /\ ncalls' = ncalls + 1
    /\ call' = Call("build_dictionaries", 0, NoArg, operators, <<>>)
    /\ ret' = build_dictionaries(nodes, operators)
    /\ UNCHANGED <<nodes, builder, lindblad_model, mpo_builder>>

\* The call is over: what it returned or raised, and the builder's fields.
Finish(done) ==
    /\ ret' = done.ret
    /\ self_ids' = done.self.ids
    /\ self_identity_matrices' = done.self.identity_matrices
    /\ self_subsystems' = done.self.subsystems
    /\ self_total_dim' = done.self.total_dim
    /\ self_dyn_op' = done.self.dyn_op

\* OperatorBuilder.build_matrices(operators, subsystems)
BuildMatrices(operators, subsystems) ==
    /\ ncalls < MaxCalls
    /\ ncalls' = ncalls + 1
    /\ call' = Call("build_matrices", 0, NoArg, operators, subsystems)
    /\ Finish(build_matrices(nodes,
                             Builder(self_ids, self_identity_matrices,
                                     self_subsystems, self_total_dim, self_dyn_op),
                             operators, subsystems, None))
    /\ UNCHANGED <<nodes, lindblad_model, mpo_builder>>

Next ==
    \/ \E leaf \in Leaves : Construct(leaf[1], leaf[2])
    \/ \E self, other \in 1..Len(nodes) : Add(self, NodeArg(other))
    \/ \E self \in 1..Len(nodes), other \in Scalars \cup Unsupported :
           Add(self, other)
    \/ \E self \in 1..Len(nodes), other \in Unsupported :
           Mul(self, other) \/ RMul(self, other)
    \/ \E self, other \in 1..Len(nodes) : Mul(self, NodeArg(other))
    \/ \E self \in 1..Len(nodes), other \in Scalars : Mul(self, other)
    \/ \E self \in 1..Len(nodes), other \in Scalars : RMul(self, other)
    \/ \E self \in 1..Len(nodes) : Neg(self)
    \/ \E self, other \in 1..Len(nodes) : Sub(self, other)
    \/ \E self \in 1..Len(nodes) : Pos(self)
    \/ \E operators \in DictionaryInputs(nodes) : BuildDictionaries(operators)
    \/ \E operators \in MatrixInputs(nodes), subsystems \in SubsystemMaps :
           BuildMatrices(operators, subsystems)

Spec == Init /\ [][Next]_vars

----------------------------------------------------------------------------
(* Properties: helpers *)

\* The <<system_id, unique type>> pairs of a key tuple, in order.
KeyValues(key) == [i \in 1..Len(key) |-> <<key[i].system_id, key[i].s_type_unique>>]

\* The dictionary the node n flattens to.
Flatten(n) == build_dictionaries(nodes, One(NodeArg(n))).value

\* The dictionary an element of an operators argument stands for.
ItemDict(item) == IF item.type = "dict" THEN item.val ELSE Flatten(item.ref)

RECURSIVE Coeff(_, _, _)
\* The sum of the coefficients the dictionary d holds for the key values kv.
Coeff(d, kv, i) ==
    IF i = 0 THEN CZero
    ELSE IF KeyValues(d[i].key) = kv THEN CAdd(Coeff(d, kv, i - 1), d[i].val)
    ELSE Coeff(d, kv, i - 1)

\* How often e occurs in the sequence s.
Count(s, e) == Cardinality({i \in 1..Len(s) : s[i] = e})

\* The entries of a dictionary with the keys replaced by their values.
Entries(d) == [i \in 1..Len(d) |-> [key |-> KeyValues(d[i].key), val |-> d[i].val]]

RECURSIVE KronFold(_, _)
\* factors[1] (x) factors[2] (x) ... (x) factors[i], the leftmost outermost.
KronFold(factors, i) ==
    IF i = 1 THEN factors[1] ELSE np_kron(KronFold(factors, i - 1), factors[i])

\* The elementary 2 x 2 matrix of a unique type.
Elementary(s_type_unique) == get_operator_matrix(s_type_unique, 2).value

RECURSIVE OrderedProduct(_, _, _)
\* The product, in tuple order, of the elementary matrices of the first j
\* elements of key that act on system_id (the identity when there is none).
OrderedProduct(key, system_id, j) ==
    IF j = 0 THEN I2
    ELSE IF key[j].system_id = system_id
    THEN matmul(OrderedProduct(key, system_id, j - 1), Elementary(key[j].s_type_unique))
    ELSE OrderedProduct(key, system_id, j - 1)

AllDimsTwo(subsystems) ==
    Len(subsystems) > 0 /\ \A i \in 1..Len(subsystems) : subsystems[i][2] = 2

KeysOf(subsystems) == {subsystems[i][1] : i \in 1..Len(subsystems)}

\* The system ids the dictionary d refers to.
IdsOf(d) ==
    UNION {{d[i].key[j].system_id : j \in 1..Len(d[i].key)} : i \in 1..Len(d)}

\* build_dictionaries / build_matrices was called last on the one node n.
CalledOnNode(fn, n) ==
    /\ call.fn = fn
    /\ ~call.operators.is_list
    /\ call.operators.items[1] = NodeArg(n)

NodeIds == 1..Len(nodes)

\* The node n is a compound of the given type.
IsCompound(n, compound_type) == nodes[n].compound_type = compound_type
Operand(n, i) == nodes[n].compound_ops[1][i]

----------------------------------------------------------------------------
(* C1: the flattening of a sum *)

\* C1: build_dictionaries(a + b) holds exactly one entry per distinct key
\* tuple (compared by system_id and unique type), with the sum of the
\* coefficients the tuple has in the flattenings of a and of b.
C1_SumMergesEqualKeys ==
    \A n \in NodeIds :
        (CalledOnNode("build_dictionaries", n) /\ IsCompound(n, "+")) =>
            LET d == ret.value
                da == Flatten(Operand(n, 1).ref)
                db == Flatten(Operand(n, 2).ref)
            IN  /\ ret.kind = "dict"
                /\ \A i, j \in 1..Len(d) :
                       KeyValues(d[i].key) = KeyValues(d[j].key) => i = j
                /\ \A i \in 1..Len(d) :
                       d[i].val = CAdd(Coeff(da, KeyValues(d[i].key), Len(da)),
                                       Coeff(db, KeyValues(d[i].key), Len(db)))
                /\ \A i \in 1..Len(da) :
                       \E j \in 1..Len(d) : KeyValues(d[j].key) = KeyValues(da[i].key)
                /\ \A i \in 1..Len(db) :
                       \E j \in 1..Len(d) : KeyValues(d[j].key) = KeyValues(db[i].key)

----------------------------------------------------------------------------
(* C2: the flattening of a product *)

\* The terms of the product of two dictionaries: every key of da followed by
\* every key of db, with the product of the coefficients.
CrossTerms(da, db) ==
    [p \in 1..(Len(da) * Len(db)) |->
        LET i == ((p - 1) \div Len(db)) + 1
            j == ((p - 1) % Len(db)) + 1
        IN  [key |-> KeyValues(da[i].key) \o KeyValues(db[j].key),
             val |-> CMul(da[i].val, db[j].val)]]

\* C2: build_dictionaries(a * b) holds, for every pair of a term of a and a
\* term of b, the concatenated key with the product of the coefficients, and
\* nothing else.
C2_ProductDistributes ==
    \A n \in NodeIds :
        (CalledOnNode("build_dictionaries", n) /\ IsCompound(n, "@")) =>
            LET got == Entries(ret.value)
                want == CrossTerms(Flatten(Operand(n, 1).ref), Flatten(Operand(n, 2).ref))
            IN  /\ ret.kind = "dict"
                /\ Len(got) = Len(want)
                /\ \A i \in 1..Len(want) : Count(got, want[i]) = Count(want, want[i])

----------------------------------------------------------------------------
(* C3: one operator on one subsystem *)

\* The matrix a build_matrices call on one element returned.
Returned == IF call.operators.is_list THEN ret.value[1] ELSE ret.value
ReturnedMatrix == ret.kind = (IF call.operators.is_list THEN "list" ELSE "matrix")

KronXI ==
    <<<<CZero, CZero, COne, CZero>>, <<CZero, CZero, CZero, COne>>,
      <<COne, CZero, CZero, CZero>>, <<CZero, COne, CZero, CZero>>>>

KronIZ ==
    <<<<COne, CZero, CZero, CZero>>, <<CZero, <<-1, 0>>, CZero, CZero>>,
      <<CZero, CZero, COne, CZero>>, <<CZero, CZero, CZero, <<-1, 0>>>>>>

\* build_matrices was called last on one leaf node, given as a node or as
\* its dictionary, with a map of dimensions 2 that holds the leaf's id.
LeafRealized(n) ==
    /\ call.fn = "build_matrices"
    /\ Len(call.operators.items) = 1
    /\ call.operators.items[1] \in {NodeArg(n), DictOf(nodes, n)}
    /\ IsCompound(n, "")
    /\ AllDimsTwo(call.subsystems)
    /\ nodes[n].system_id \in KeysOf(call.subsystems)

\* C3: for one operator on the subsystem s of a map of dimensions 2,
\* build_matrices returns the Kronecker product, in the order of the map, of
\* the operator's matrix at the place of s and identities elsewhere, the left
\* factor being the outer index: Sx(0) gives kron(X, I) and Sz(1) gives
\* kron(I, Z) with the map {0: 2, 1: 2}.
C3_LeafIsKronInMapOrder ==
    \A n \in NodeIds :
        LeafRealized(n) =>
            LET subsystems == call.subsystems
                factors == [i \in 1..Len(subsystems) |->
                               IF subsystems[i][1] = nodes[n].system_id
                               THEN Elementary(nodes[n].s_type_unique)
                               ELSE I2]
            IN  /\ ReturnedMatrix
                /\ Returned = KronFold(factors, Len(factors))
                /\ (subsystems = <<<<"0", 2>>, <<"1", 2>>>> /\ nodes[n].system_id = "0"
                        /\ nodes[n].s_type_unique = <<"x">>) => Returned = KronXI
                /\ (subsystems = <<<<"0", 2>>, <<"1", 2>>>> /\ nodes[n].system_id = "1"
                        /\ nodes[n].s_type_unique = <<"z">>) => Returned = KronIZ

\* Sx(0) was realized with the map {0: 2, 1: 2} as kron(X, I).
C3_Witness ==
    \E n \in NodeIds :
        /\ LeafRealized(n)
        /\ call.subsystems = <<<<"0", 2>>, <<"1", 2>>>>
        /\ nodes[n].system_id = "0"
        /\ nodes[n].s_type_unique = <<"x">>
        /\ ReturnedMatrix
        /\ Returned = KronXI

----------------------------------------------------------------------------
(* C4: the operators of one term *)

XZ == <<<<CZero, <<-1, 0>>>>, <<COne, CZero>>>>
ZX == <<<<CZero, COne>>, <<<<-1, 0>>, CZero>>>>

\* build_matrices was called last on one element that flattens to the single
\* term d[1], with a map of dimensions 2 that holds the term's ids.
TermRealized(d) ==
    /\ call.fn = "build_matrices"
    /\ Len(call.operators.items) = 1
    /\ d = ItemDict(call.operators.items[1])
    /\ Len(d) = 1
    /\ AllDimsTwo(call.subsystems)
    /\ IdsOf(d) \subseteq KeysOf(call.subsystems)

\* C4: the matrix of one term is its coefficient times the Kronecker product,
\* in the order of the map, of one factor per subsystem: the product, in the
\* order of the key tuple, of the matrices of the operators on that subsystem
\* (the identity when there is none).
C4_TermMultipliesInTupleOrder ==
    (call.fn = "build_matrices" /\ Len(call.operators.items) = 1) =>
        LET d == ItemDict(call.operators.items[1])
            subsystems == call.subsystems
            factors == [i \in 1..Len(subsystems) |->
                           OrderedProduct(d[1].key, subsystems[i][1], Len(d[1].key))]
        IN  TermRealized(d) =>
                /\ ReturnedMatrix
                /\ Returned = scale(d[1].val, KronFold(factors, Len(factors)))

\* X_0 * Z_0 was realized as X @ Z, which is not Z @ X.
C4_Witness ==
    \E n \in NodeIds :
        /\ CalledOnNode("build_matrices", n)
        /\ IsCompound(n, "@")
        /\ TermRealized(Flatten(n))
        /\ KeyValues(Flatten(n)[1].key) = <<<<"0", <<"x">>>>, <<"0", <<"z">>>>>>
        /\ call.subsystems = <<<<"0", 2>>>>
        /\ ret.kind = "matrix"
        /\ ret.value = XZ
        /\ XZ # ZX
        /\ matmul(X2, Z2) = XZ
        /\ matmul(Z2, X2) = ZX

----------------------------------------------------------------------------
(* C5: the product with a scalar *)

\* What build_matrices returns or raises for the node n and the map of the
\* latest call, on a new OperatorBuilder.
Realize(n) ==
    build_matrices(nodes, OperatorBuilder, One(NodeArg(n)), call.subsystems, None).ret

\* C5: flattening a node [a, c] of type '*' gives the keys of the flattening
\* of a, unchanged and in the same order, each coefficient multiplied by c;
\* and build_matrices of the node is c times build_matrices of a (where
\* build_matrices of a returns None or raises, so does that of the node).
C5_ScalarProductScales ==
    \A n \in NodeIds :
        IsCompound(n, "*") =>
            LET a == Operand(n, 1).ref
                c == Operand(n, 2).val
                da == Flatten(a)
            IN  /\ CalledOnNode("build_dictionaries", n) =>
                       /\ ret.kind = "dict"
                       /\ Len(ret.value) = Len(da)
                       /\ \A i \in 1..Len(da) :
                              /\ KeyValues(ret.value[i].key) = KeyValues(da[i].key)
                              /\ ret.value[i].val = CMul(c, da[i].val)
                /\ CalledOnNode("build_matrices", n) =>
                       IF Realize(a).kind = "matrix"
                       THEN ret.kind = "matrix" /\ ret.value = scale(c, Realize(a).value)
                       ELSE ret = Realize(a)

\* 1j * Sx(0) (or Sx(0) * 1j) was realized with the map {0: 2} as 1j * X.
C5_Witness ==
    \E n \in NodeIds :
        /\ CalledOnNode("build_matrices", n)
        /\ IsCompound(n, "*")
        /\ Operand(n, 2) = ScalarArg("complex", 0, 1)
        /\ call.subsystems = <<<<"0", 2>>>>
        /\ Realize(Operand(n, 1).ref) = Return("matrix", X2)
        /\ ret = Return("matrix", <<<<CZero, <<0, 1>>>>, <<<<0, 1>>, CZero>>>>)

----------------------------------------------------------------------------
(* C6: subsystems of dimension 0 *)

\* The elements of the latest operators argument are all nodes or all
\* dictionaries, and refer only to ids of the latest subsystem map.
WellFormedCall ==
    /\ \A i, j \in 1..Len(call.operators.items) :
           call.operators.items[i].type = call.operators.items[j].type
    /\ \A i \in 1..Len(call.operators.items) :
           IdsOf(ItemDict(call.operators.items[i])) \subseteq KeysOf(call.subsystems)

\* The matrices a build_matrices call returned.
ReturnedMatrices ==
    IF ret.kind = "matrix" THEN <<ret.value>>
    ELSE IF ret.kind = "list" THEN ret.value
    ELSE <<>>

\* The ids of the latest subsystem map that have the dimension 0.
ExcludedIds == {call.subsystems[i][1] : i \in {j \in 1..Len(call.subsystems) : call.subsystems[j][2] = 0}}

\* C6: with a subsystem of declared dimension 0 in the map (the others of
\* dimension 2, and no operator on the excluded subsystem), build_matrices
\* succeeds and every matrix it returns is square with the product of the
\* nonzero dimensions as its side.
C6_ZeroDimensionIsExcluded ==
    (/\ call.fn = "build_matrices"
     /\ WellFormedCall
     /\ ExcludedIds # {}
     /\ \A i \in 1..Len(call.operators.items) :
            IdsOf(ItemDict(call.operators.items[i])) \cap ExcludedIds = {}
     /\ \A i \in 1..Len(call.subsystems) : call.subsystems[i][2] \in {0, 2}) =>
        LET dims == values_of(call.subsystems)
            side == total_dim_loop(dims, Len(dims))
        IN  /\ ret.kind \in {"matrix", "list"}
            /\ \A i \in 1..Len(ReturnedMatrices) :
                   /\ Rows(ReturnedMatrices[i]) = side
                   /\ Cols(ReturnedMatrices[i]) = side

----------------------------------------------------------------------------
(* C7: keys of equal id and unique type *)

\* C7: the keys of two leaves of equal system_id whose declared types, not
\* the same string, resolve to one unique type hash equal and compare equal,
\* so that the flattening of their sum holds one entry.
C7_AliasedKeysAreOneKey ==
    \A n \in NodeIds :
        (/\ CalledOnNode("build_dictionaries", n)
         /\ IsCompound(n, "+")
         /\ IsCompound(Operand(n, 1).ref, "")
         /\ IsCompound(Operand(n, 2).ref, "")
         /\ nodes[Operand(n, 1).ref].system_id = nodes[Operand(n, 2).ref].system_id
         /\ nodes[Operand(n, 1).ref].s_type # nodes[Operand(n, 2).ref].s_type
         /\ nodes[Operand(n, 1).ref].s_type_unique = nodes[Operand(n, 2).ref].s_type_unique) =>
            LET d == ret.value
                first == d[1].key[1]
                last == d[Len(d)].key[1]
            IN  /\ key_hash(first) = key_hash(last)
                /\ key_eq(first, last)
                /\ Len(d) = 1

----------------------------------------------------------------------------
(* C8: the operands of a product with a scalar *)

\* C8: node * c and c * node, for a scalar c, build a node of type '*' whose
\* compound_ops is [node, c].
C8_ScalarProductOperandFirst ==
    (call.fn \in {"__mul__", "__rmul__"} /\ IsScalarType(call.other.type)) =>
        /\ ret.kind = "node"
        /\ ret.value = Len(nodes)
        /\ nodes[ret.value].compound_type = "*"
        /\ nodes[ret.value].compound_ops = Some(<<NodeArg(call.self), call.other>>)

\* 2 * node was evaluated and built the node [node, 2].
C8_Witness ==
    /\ call.fn = "__rmul__"
    /\ call.other = ScalarArg("int", 2, 0)
    /\ ret.kind = "node"
    /\ nodes[ret.value].compound_type = "*"
    /\ nodes[ret.value].compound_ops = Some(<<NodeArg(call.self), ScalarArg("int", 2, 0)>>)

----------------------------------------------------------------------------
(* C9: lists that mix nodes and dictionaries *)

MixedList ==
    /\ \E i \in 1..Len(call.operators.items) : call.operators.items[i].type = "dict"
    /\ \E i \in 1..Len(call.operators.items) :
           call.operators.items[i].type = "DynamicalOperator"

\* C9: build_matrices, called with a subsystem map of dimensions 2 and a
\* list that holds a node and a dictionary, in either order (both on ids of
\* the map), raises the error of mixed types, before any identity matrix is
\* made.
C9_MixedListIsRejected ==
    (/\ call.fn = "build_matrices"
     /\ AllDimsTwo(call.subsystems)
     /\ MixedList
     /\ \A i \in 1..Len(call.operators.items) :
            IdsOf(ItemDict(call.operators.items[i])) \subseteq KeysOf(call.subsystems)) =>
        /\ ret.kind = "raise"
        /\ ret.error = "All operators must be of the same type"
        /\ self_identity_matrices = None

----------------------------------------------------------------------------
(* C10: ids that the subsystem map does not hold *)

RECURSIVE KeyIds(_, _)
\* The system ids of the first t terms of a dictionary, in order.
KeyIds(d, t) ==
    IF t = 0 THEN <<>>
    ELSE KeyIds(d, t - 1) \o [j \in 1..Len(d[t].key) |-> d[t].key[j].system_id]

RECURSIVE CallIds(_)
\* The system ids of the first i elements of the latest operators argument,
\* in the order build_matrices meets them.
CallIds(i) ==
    IF i = 0 THEN <<>>
    ELSE CallIds(i - 1) \o
         KeyIds(ItemDict(call.operators.items[i]), Len(ItemDict(call.operators.items[i])))

\* The ids of the latest call that its subsystem map does not hold.
MissingIds == SelectSeq(CallIds(Len(call.operators.items)),
                        LAMBDA id : id \notin KeysOf(call.subsystems))

MissingIdError ==
    "An operator was defined with an id that does not appear in the subsystems parameter"

\* C10 as stated: build_matrices raises the error naming the id whenever a
\* term of an input refers to an id that the subsystem map does not hold.
C10_MissingIdAlwaysRaises ==
    (call.fn = "build_matrices" /\ MissingIds # <<>>) =>
        /\ ret.kind = "raise"
        /\ ret.error = MissingIdError
        /\ \E i \in 1..Len(MissingIds) : ret.info = <<MissingIds[i]>>

\* C10 as amended: with a subsystem map that is not empty, build_matrices
\* returns nothing and raises whenever a term of an input refers to an id
\* the map does not hold; the error is the one naming the first such id when
\* the map's dimensions are all 2 and the elements are all nodes or all
\* dictionaries. With an empty map it returns None.
C10_MissingIdRaisesUnlessMapEmpty ==
    (call.fn = "build_matrices" /\ MissingIds # <<>>) =>
        IF Len(call.subsystems) = 0 THEN ret.kind = "None"
        ELSE /\ ret.kind = "raise"
             /\ (AllDimsTwo(call.subsystems) /\ ~MixedList) =>
                    /\ ret.error = MissingIdError
                    /\ ret.info = <<MissingIds[1]>>

\* Sz(1) was given with the map {0: 2}, and the error names the id 1.
C10_Witness ==
    /\ call.fn = "build_matrices"
    /\ call.subsystems = <<<<"0", 2>>>>
    /\ MissingIds # <<>>
    /\ ret.kind = "raise"
    /\ ret.error = MissingIdError
    /\ ret.info = <<"1">>

----------------------------------------------------------------------------
(* C11: the matrices get_operator_matrix provides *)

\* The largest dimension get_operator_matrix is asked for.
MaxDim == 4

\* The operator type names get_operator_matrix is asked for: the canonical
\* types, 'null', the default aliases, upper-case spellings and other names.
TypeNames ==
    {<<"i">>, <<"x">>, <<"y">>, <<"z">>, <<"s", "p">>, <<"s", "m">>, <<"0">>,
     <<"1">>, <<"n", "u", "l", "l">>,
     <<"i", "d">>, <<"s", "x">>, <<"s", "y">>, <<"s", "z">>,
     <<"I">>, <<"X">>, <<"S", "P">>, <<"N", "u", "l", "l">>,
     <<>>, <<"a">>, <<"n">>, <<"p">>, <<"q">>, <<"2">>, <<"n", "u", "l">>}

\* A call of a DynamicalOperator method that takes a type name and a dimension.
Request(fn, s_type_unique, dim) ==
    [fn |-> fn, s_type_unique |-> s_type_unique, dim |-> dim]

\* DynamicalOperator().get_operator_matrix(s_type_unique, dim)
GetOperatorMatrix(s_type_unique, dim) ==
    /\ call' = Request("get_operator_matrix", s_type_unique, dim)
    /\ ret' = get_operator_matrix(s_type_unique, dim)
    /\ UNCHANGED <<nodes, builder, ncalls, lindblad_model, mpo_builder>>

\* DynamicalOperator().get_zeros_matrix(dim)
GetZerosMatrix(dim) ==
    /\ call' = Request("get_zeros_matrix", <<"n", "u", "l", "l">>, dim)
    /\ ret' = Return("matrix", get_zeros_matrix(dim))
    /\ UNCHANGED <<nodes, builder, ncalls, lindblad_model, mpo_builder>>

NextMatrix ==
    \/ \E s_type_unique \in TypeNames, dim \in 0..MaxDim :
           GetOperatorMatrix(s_type_unique, dim)
    \/ \E dim \in 0..MaxDim : GetZerosMatrix(dim)

SpecMatrix == Init /\ [][NextMatrix]_vars

\* The canonical types that have a matrix at dimension 2.
CanonicalTypes ==
    {<<"i">>, <<"x">>, <<"y">>, <<"z">>, <<"s", "p">>, <<"s", "m">>, <<"0">>, <<"1">>}

IsSquare(m, dim) == Len(m) = dim /\ \A i \in 1..dim : Len(m[i]) = dim

\* C11: get_operator_matrix returns the dim x dim zero matrix for 'null' at
\* any dimension and a 2 x 2 matrix for a canonical type at dimension 2 (the
\* identity for 'i'); every other request raises the unsupported-operator
\* error naming the type and the dimension.
C11_OnlyCanonicalTypesHaveMatrices ==
    call.fn = "get_operator_matrix" =>
        IF call.s_type_unique = <<"n", "u", "l", "l">>
        THEN /\ ret.kind = "matrix"
             /\ IsSquare(ret.value, call.dim)
             /\ \A i, j \in 1..call.dim : ret.value[i][j] = CZero
        ELSE IF call.dim = 2 /\ call.s_type_unique \in CanonicalTypes
        THEN /\ ret.kind = "matrix"
             /\ IsSquare(ret.value, 2)
             /\ call.s_type_unique = <<"i">> =>
                    ret.value = <<<<COne, CZero>>, <<CZero, COne>>>>
        ELSE /\ ret.kind = "raise"
             /\ ret.error = "Operator type unknown or unsupported for matrix generation"
             /\ ret.info = <<call.s_type_unique, call.dim>>

\* An alias of a canonical type is asked for at dimension 2 and refused.
C11_Witness ==
    /\ call.fn = "get_operator_matrix"
    /\ call.s_type_unique = <<"s", "x">>
    /\ call.dim = 2
    /\ ret.kind = "raise"

----------------------------------------------------------------------------
(* C12: the empty list of operators *)

RECURSIVE NonzeroProduct(_, _)
\* The product of the nonzero dimensions among the first i of a subsystem map.
NonzeroProduct(subsystems, i) ==
    IF i = 0 THEN 1
    ELSE IF subsystems[i][2] = 0 THEN NonzeroProduct(subsystems, i - 1)
    ELSE NonzeroProduct(subsystems, i - 1) * subsystems[i][2]

\* The square zero matrix of the given side.
IsZeroMatrix(m, side) ==
    /\ IsSquare(m, side)
    /\ \A i, j \in 1..side : m[i][j] = CZero

EmptyListCall == call.fn = "build_matrices" /\ call.operators = List(<<>>)

\* C12 as claimed: for an empty list of operators and every subsystem map,
\* build_matrices returns the zero matrix whose side is the product of the
\* map's nonzero dimensions.
C12_EmptyListGivesZeroMatrix ==
    EmptyListCall =>
        /\ ret.kind = "matrix"
        /\ IsZeroMatrix(ret.value, NonzeroProduct(call.subsystems, Len(call.subsystems)))

\* C12 as amended: for an empty list of operators and every subsystem map
\* that is not empty, build_matrices returns the zero matrix whose side is
\* the product of the map's nonzero dimensions; for the empty map it returns
\* None.
C12_EmptyListGivesZeroMatrixUnlessMapEmpty ==
    EmptyListCall =>
        IF Len(call.subsystems) = 0 THEN ret = Return("None", <<>>)
        ELSE /\ ret.kind = "matrix"
             /\ IsZeroMatrix(ret.value,
                             NonzeroProduct(call.subsystems, Len(call.subsystems)))

\* The empty list with a map that holds a dimension 0: the 2 x 2 zero matrix.
C12_Witness ==
    /\ EmptyListCall
    /\ call.subsystems = <<<<"0", 2>>, <<"1", 0>>>>
    /\ ret.kind = "matrix"
    /\ Len(ret.value) = 2

----------------------------------------------------------------------------
(* C13: dictionaries given to build_matrices *)

\* build_matrices was called last on dictionaries only (one, or a list).
DictCall ==
    /\ call.fn = "build_matrices"
    /\ Len(call.operators.items) > 0
    /\ \A i \in 1..Len(call.operators.items) : call.operators.items[i].type = "dict"

\* The operators argument of the latest call with the nodes ns in the place
\* of its elements.
NodesInstead(ns) ==
    [is_list |-> call.operators.is_list,
     items |-> [i \in 1..Len(call.operators.items) |-> NodeArg(ns[i])]]

\* C13: build_matrices on the dictionaries that build_dictionaries returned
\* for nodes (one node, or a list of nodes) returns or raises what
\* build_matrices does on the nodes themselves, with every subsystem map.
C13_DictionariesRealizeAsNodes ==
    DictCall =>
        \A ns \in [1..Len(call.operators.items) -> NodeIds] :
            (\A i \in 1..Len(call.operators.items) :
                 call.operators.items[i] = DictOf(nodes, ns[i])) =>
                ret = build_matrices(nodes, OperatorBuilder, NodesInstead(ns),
                                     call.subsystems, None).ret

\* A list of two dictionaries, the second one of a compound node, realized as
\* two matrices.
C13_Witness ==
    /\ DictCall
    /\ Len(call.operators.items) = 2
    /\ Len(nodes) >= 2
    /\ nodes[Len(nodes)].compound_type # ""
    /\ call.operators.items[2] = DictOf(nodes, Len(nodes))
    /\ ret.kind = "list"
    /\ Len(ret.value) = 2

----------------------------------------------------------------------------
(* C14: the shape of what build_dictionaries returns *)

\* The flattening of the node n, with the keys replaced by their values.
FlattenedEntries(n) == Entries(build_one_dict(nodes, n, <<>>).value)

\* C14: build_dictionaries returns one dictionary for one node, and for a list
\* of n nodes (n = 0, 1, 2) a list of n dictionaries, the i-th being the
\* flattening of the i-th node.
C14_DictionariesKeepShape ==
    call.fn = "build_dictionaries" =>
        LET items == call.operators.items
        IN  IF call.operators.is_list
            THEN /\ ret.kind = "list"
                 /\ Len(ret.value) = Len(items)
                 /\ \A i \in 1..Len(items) :
                        Entries(ret.value[i]) = FlattenedEntries(items[i].ref)
            ELSE /\ ret.kind = "dict"
                 /\ Entries(ret.value) = FlattenedEntries(items[1].ref)

\* A list of one node gives a list of one dictionary.
C14_Witness ==
    /\ call.fn = "build_dictionaries"
    /\ call.operators.is_list
    /\ Len(call.operators.items) = 1
    /\ ret.kind = "list"
    /\ Len(ret.value) = 1

----------------------------------------------------------------------------
(* C15: arithmetic with an operand of an unsupported type *)

\* The class of a raised exception: the errors the module raises itself are
\* all raised as Exception(message).
ErrorClass(outcome) ==
    IF outcome.error \in {"AttributeError", "ValueError", "TypeError"}
    THEN outcome.error
    ELSE "Exception"

\* A step of + or * does what C15 says, the error raised being of the class cls.
C15_Step(cls) ==
    /\ call'.fn = "__add__" =>
           IF call'.other.type = "DynamicalOperator"
           THEN /\ ret' = Return("node", Len(nodes) + 1)
                /\ Len(nodes') = Len(nodes) + 1
                /\ nodes'[Len(nodes')].compound_type = "+"
                /\ nodes'[Len(nodes')].compound_ops =
                       Some(<<NodeArg(call'.self), call'.other>>)
           ELSE /\ ret'.kind = "raise"
                /\ ErrorClass(ret') = cls
                /\ nodes' = nodes
    /\ (/\ call'.fn \in {"__mul__", "__rmul__"}
        /\ call'.other.type \notin {"DynamicalOperator", "complex", "float", "int"}) =>
           /\ ret'.kind = "raise"
           /\ nodes' = nodes

\* C15 as claimed: node + other raises a TypeError and builds no node unless
\* other is a DynamicalOperator, and then it builds the '+' node with the
\* operands [self, other]; node * other raises and builds no node unless
\* other is a DynamicalOperator or a complex, float or int scalar.
C15_UnsupportedOperandRaisesTypeError == [][C15_Step("TypeError")]_vars

\* C15 as amended: the same, the error raised being an Exception (the base
\* class), not a TypeError.
C15_UnsupportedOperandRaises == [][C15_Step("Exception")]_vars

\* A node was multiplied by a string: an error, and no new node.
C15_Witness ==
    /\ call.fn = "__mul__"
    /\ call.other.type = "str"
    /\ ret.kind = "raise"
    /\ Len(nodes) = 2

----------------------------------------------------------------------------
(* C16: subtraction, negation and unary plus *)

MinusOne == ScalarArg("float", -1, 0)

\* The node n is b multiplied by -1.
IsNegationOf(n, b) ==
    /\ nodes[n].compound_type = "*"
    /\ nodes[n].compound_ops = Some(<<NodeArg(b), MinusOne>>)

\* The node n is a + (-b).
IsDifferenceOf(n, a, b) ==
    /\ nodes[n].compound_type = "+"
    /\ nodes[n].compound_ops[1][1] = NodeArg(a)
    /\ nodes[n].compound_ops[1][2].type = "DynamicalOperator"
    /\ IsNegationOf(nodes[n].compound_ops[1][2].ref, b)

\* What build_matrices gives for the one node n with the map of the call.
Realized(n) ==
    build_matrices(nodes, OperatorBuilder, One(NodeArg(n)), call.subsystems, None).ret

\* C16: a - b returns the node of a + (-b), -b the node of b * -1.0, and +a
\* the node a itself; build_matrices(a - b) is build_matrices(a) minus
\* build_matrices(b) when both are matrices, and otherwise what the first of
\* the two calls that gives no matrix gives (None, or the error raised).
C16_SubtractionIsAddingTheNegation ==
    /\ call.fn = "__sub__" =>
           /\ ret = Return("node", Len(nodes))
           /\ IsDifferenceOf(Len(nodes), call.self, call.other.ref)
    /\ call.fn = "__neg__" =>
           /\ ret = Return("node", Len(nodes))
           /\ IsNegationOf(Len(nodes), call.self)
    /\ call.fn = "__pos__" => ret = Return("node", call.self)
    /\ \A n, a, b \in NodeIds :
           (CalledOnNode("build_matrices", n) /\ IsDifferenceOf(n, a, b)) =>
               IF Realized(a).kind # "matrix" THEN ret = Realized(a)
               ELSE IF Realized(b).kind # "matrix" THEN ret = Realized(b)
               ELSE ret = Return("matrix",
                                 mat_add(Realized(a).value,
                                         scale(<<-1, 0>>, Realized(b).value)))

\* x0 - z1 was realized on two subsystems: a matrix that is not zero.
C16_Witness ==
    /\ Len(nodes) = 4
    /\ nodes[1].system_id # nodes[2].system_id
    /\ CalledOnNode("build_matrices", 4)
    /\ IsDifferenceOf(4, 1, 2)
    /\ ret.kind = "matrix"
    /\ Len(ret.value) = 4
    /\ ret.value[1][1] # CZero

----------------------------------------------------------------------------
(* C17: the operands of an operation are left as they were *)

\* C17: no step (an addition, a subtraction, a multiplication, a negation, a
\* flattening, a realization) changes a node that exists: its system_id,
\* types, aliases, compound_type and compound_ops stay what they were, and
\* new nodes come after the existing ones.
C17_ExistingNodesAreUnchanged ==
    [][/\ Len(nodes') >= Len(nodes)
       /\ \A n \in 1..Len(nodes) : nodes'[n] = nodes[n]]_vars

\* The leaf 1 was negated, the negation added to it, and the sum flattened:
\* the leaf is still a leaf.
C17_Witness ==
    /\ Len(nodes) = 3
    /\ nodes[1].compound_type = ""
    /\ nodes[1].compound_ops = None
    /\ IsDifferenceOf(3, 1, 1)
    /\ CalledOnNode("build_dictionaries", 3)
    /\ ret.kind = "dict"

----------------------------------------------------------------------------
(* Trees with alias tables, deep copies and unknown compound types *)

\* The leaves built with the alias table user_aliases: <<system_id, s_type>>.
AliasedLeaves == {<<"0", <<"P", "X">>>>, <<"1", <<"s", "z">>>>}

\* The commented-out DynamicalOperator.__pow__: a node of the compound type
\* '**', which _build_one_dict has no branch for (any caller can build such a
\* node, the fields of a DynamicalOperator being public).
pow(h, self, power) ==
    IF power.type # "int" THEN None
    ELSE Some([DynamicalOperatorWithAliases("", <<>>, h[self].aliases) EXCEPT
                 !.compound_type = "**",
                 !.compound_ops = Some(<<NodeArg(self), power>>)])

RECURSIVE deepcopy(_, _, _)
RECURSIVE deepcopy_list(_, _, _, _, _)

\* The copy of compound_ops is in place: the copy made at the heap index at
\* gets its compound_ops, and the memo records that at is the copy of n.
deepcopy_done(n, at, copied) ==
    [h |-> [copied.h EXCEPT ![at].compound_ops = copied.list],
     memo |-> (n :> at) @@ copied.memo,
     ref |-> at]

\* copy.deepcopy(h[n], memo), which calls DynamicalOperator.__deepcopy__
\* unless the memo holds a copy of h[n]: the heap and the memo afterwards,
\* and the copy (ref).
deepcopy(h, memo, n) ==
    IF n \in DOMAIN memo THEN [h |-> h, memo |-> memo, ref |-> memo[n]]
    ELSE deepcopy_done(
             n, Len(h) + 1,
             IF h[n].compound_ops = None
             THEN [h |-> Append(h, DynamicalOperatorWithAliases(
                                       h[n].system_id, h[n].s_type, h[n].aliases)),
                   memo |-> memo, list |-> None]
             ELSE deepcopy_list(
                      Append(h, [DynamicalOperatorWithAliases(
                                     h[n].system_id, h[n].s_type, h[n].aliases)
                                 EXCEPT !.compound_type = h[n].compound_type]),
                      memo, h[n].compound_ops[1], 1, <<>>))

\* The element i of the list is a copy of a node.
deepcopy_element(ops, i, acc, copied) ==
    deepcopy_list(copied.h, copied.memo, ops, i + 1, Append(acc, NodeArg(copied.ref)))

\* copy.deepcopy(self.compound_ops, memo): the elements in order, a scalar
\* being its own copy.
deepcopy_list(h, memo, ops, i, acc) ==
    IF i > Len(ops) THEN [h |-> h, memo |-> memo, list |-> Some(acc)]
    ELSE IF ops[i].type = "DynamicalOperator"
    THEN deepcopy_element(ops, i, acc, deepcopy(h, memo, ops[i].ref))
    ELSE deepcopy_list(h, memo, ops, i + 1, Append(acc, ops[i]))

\* DynamicalOperator(system_id, s_type, aliases)
ConstructWithAliases(system_id, s_type, aliases) ==
    /\ Len(nodes) < MaxNodes
    /\ Store("__init__", 0, DictArg(aliases),
             Some(DynamicalOperatorWithAliases(system_id, s_type, aliases)))

\* nodes[self] ** power
Pow(self, power) ==
    /\ Len(nodes) < MaxNodes
    /\ Store("__pow__", self, power, pow(nodes, self, power))

\* The copy is made: the new nodes, and the root of the copy returned.
Copied(done) ==
    /\ nodes' = done.h
    /\ ret' = Return("node", done.ref)

\* copy.deepcopy(nodes[self])
DeepCopy(self) ==
    /\ Len(nodes) < MaxNodes
    /\ call' = Call("__deepcopy__", self, NoArg, List(<<>>), <<>>)
    /\ Copied(deepcopy(nodes, <<>>, self))
    /\ UNCHANGED <<builder, ncalls, lindblad_model, mpo_builder>>

NextTree ==
    \/ \E leaf \in Leaves : Construct(leaf[1], leaf[2])
    \/ \E leaf \in AliasedLeaves : ConstructWithAliases(leaf[1], leaf[2], "user_aliases")
    \/ \E self, other \in 1..Len(nodes) : Add(self, NodeArg(other))
    \/ \E self, other \in 1..Len(nodes) : Mul(self, NodeArg(other))
    \/ \E self \in 1..Len(nodes), other \in Scalars : RMul(self, other)
    \/ \E self \in 1..Len(nodes) : Neg(self)
    \/ \E self \in 1..Len(nodes) : Pow(self, ScalarArg("int", 2, 0))
    \/ \E self \in 1..Len(nodes) : DeepCopy(self)
    \/ \E operators \in DictionaryInputs(nodes) : BuildDictionaries(operators)

SpecTree == Init /\ [][NextTree]_vars

----------------------------------------------------------------------------
(* C18: alias tables are shared, deep copies are new trees *)

\* The operands of the node n that are nodes.
NodeOperands(h, n) ==
    IF h[n].compound_ops = None THEN {}
    ELSE {h[n].compound_ops[1][i].ref :
             i \in {j \in 1..Len(h[n].compound_ops[1]) :
                       h[n].compound_ops[1][j].type = "DynamicalOperator"}}

RECURSIVE Reach(_, _)
\* The nodes of the tree with the root n.
Reach(h, n) == {n} \cup UNION {Reach(h, m) : m \in NodeOperands(h, n)}

RECURSIVE IsCopyOf(_, _, _)
\* The tree with the root c has the structure of the tree with the root n:
\* ids, types, compound types, operand order and scalars, and at every node
\* the alias table of the original.
IsCopyOf(h, c, n) ==
    /\ h[c].system_id = h[n].system_id
    /\ h[c].s_type = h[n].s_type
    /\ h[c].s_type_unique = h[n].s_type_unique
    /\ h[c].compound_type = h[n].compound_type
    /\ h[c].aliases = h[n].aliases
    /\ IF h[n].compound_ops = None THEN h[c].compound_ops = None
       ELSE /\ h[c].compound_ops # None
            /\ Len(h[c].compound_ops[1]) = Len(h[n].compound_ops[1])
            /\ \A i \in 1..Len(h[n].compound_ops[1]) :
                   IF h[n].compound_ops[1][i].type = "DynamicalOperator"
                   THEN /\ h[c].compound_ops[1][i].type = "DynamicalOperator"
                        /\ IsCopyOf(h, h[c].compound_ops[1][i].ref,
                                    h[n].compound_ops[1][i].ref)
                   ELSE h[c].compound_ops[1][i] = h[n].compound_ops[1][i]

\* C18: a node built without an alias table refers to DEFAULT_ALIASES and one
\* built with a table to that table; the node an arithmetic operator returns
\* refers to the table of self; no node refers to a table other than the two
\* that exist; a deep copy has the structure of the original, at every node
\* the table of the original, and shares no node with it.
C18_AliasTableIsShared ==
    /\ \A n \in NodeIds : nodes[n].aliases \in {"DEFAULT_ALIASES", "user_aliases"}
    /\ (call.fn = "__init__" /\ call.other = NoArg) =>
           nodes[ret.value].aliases = "DEFAULT_ALIASES"
    /\ (call.fn = "__init__" /\ call.other.type = "dict") =>
           nodes[ret.value].aliases = call.other.val
    /\ (call.fn \in {"__add__", "__mul__", "__rmul__", "__neg__"} /\ ret.kind = "node") =>
           nodes[ret.value].aliases = nodes[call.self].aliases
    /\ call.fn = "__deepcopy__" =>
           /\ ret.kind = "node"
           /\ IsCopyOf(nodes, ret.value, call.self)
           /\ Reach(nodes, ret.value) \cap Reach(nodes, call.self) = {}

\* A compound node with the table user_aliases was deep-copied.
C18_Witness ==
    /\ call.fn = "__deepcopy__"
    /\ nodes[call.self].compound_type = "+"
    /\ nodes[call.self].aliases = "user_aliases"
    /\ ret.kind = "node"
    /\ Len(nodes) = 4

----------------------------------------------------------------------------
(* C19: unknown compound types *)

\* The compound types _build_one_dict has a branch for.
KnownCompoundTypes == {"", "+", "@", "*"}

\* The tree with the root n holds a node of an unknown compound type.
HoldsUnknown(n) ==
    \E m \in Reach(nodes, n) : nodes[m].compound_type \notin KnownCompoundTypes

\* C19: build_dictionaries of a node, or of a list with a node, whose tree
\* holds a node of an unknown compound type raises the unknown-operator error
\* and returns no dictionary.
C19_UnknownCompoundTypeRaises ==
    (/\ call.fn = "build_dictionaries"
     /\ \E i \in 1..Len(call.operators.items) : HoldsUnknown(call.operators.items[i].ref)) =>
        /\ ret.kind = "raise"
        /\ ret.error = "Unknown/unsupported concatenation operator"
        /\ ret.info = <<"**">>

\* The unknown node is an operand of the sum that was flattened, after a
\* well-formed operand.
C19_Witness ==
    /\ CalledOnNode("build_dictionaries", 3)
    /\ Len(nodes) = 3
    /\ nodes[3].compound_type = "+"
    /\ nodes[3].compound_ops = Some(<<NodeArg(1), NodeArg(2)>>)
    /\ nodes[2].compound_type = "**"
    /\ ret.kind = "raise"

----------------------------------------------------------------------------
(* The custom binary operation: a rule compiled into padded tables and       *)
(* evaluated on two batches of operands.  Indices are those of Python (from  *)
(* 0); a sequence holds the element of index i at the position i + 1.        *)

\* The largest padding, beyond the length needed, that a rule is compiled with.
MaxPad == 3

\* An entry of an operation rule: the coefficients and, in parallel, the
\* pairs <<left index, right index>>.
Entry(coeffs, pairs) == [coeffs |-> coeffs, pairs |-> pairs]

\* The rules of the tests.
mult_rule1 ==
    <<Entry(<<1, 2, 3>>, <<<<0, 2>>, <<1, 1>>, <<2, 0>>>>),
      Entry(<<1>>, <<<<0, 2>>>>),
      Entry(<<3>>, <<<<1, 1>>>>)>>

mult_rule2 == <<Entry(<<1, 2, 3>>, <<<<0, 2>>, <<0, 0>>, <<0, 0>>>>)>>

\* The rules that are compiled and evaluated.
Rules ==
    {mult_rule1, mult_rule2,
     <<Entry(<<2>>, <<<<0, 0>>>>)>>,
     <<Entry(<<1, -1>>, <<<<0, 1>>, <<1, 0>>>>), Entry(<<4, 1, 1>>, <<<<1, 0>>, <<1, 0>>, <<0, 1>>>>)>>,
     <<Entry(<<1>>, <<<<2, 0>>>>), Entry(<<1, 1>>, <<<<2, 0>>, <<2, 0>>>>)>>,
     <<Entry(<<0, 5>>, <<<<0, 2>>, <<0, 1>>>>), Entry(<<7>>, <<<<0, 1>>>>)>>}

RECURSIVE all_pairs(_, _)
\* The pairs of the first k entries of a rule, in order.
all_pairs(rule, k) ==
    IF k = 0 THEN <<>> ELSE all_pairs(rule, k - 1) \o rule[k].pairs

RECURSIVE unique_in_order_keeps_repeats(_, _)
\* The first n of a sequence, an element seen before being listed again.
unique_in_order_keeps_repeats(seq, n) ==
    IF n = 0 THEN <<>> ELSE Append(unique_in_order_keeps_repeats(seq, n - 1), seq[n])

RECURSIVE unique_in_order(_, _)
\* The distinct elements of the first n of a sequence, in first-seen order.
unique_in_order(seq, n) ==
    IF n = 0 THEN <<>>
    ELSE LET before == unique_in_order(seq, n - 1)
         IN  IF \E i \in 1..Len(before) : before[i] = seq[n] THEN before
             ELSE Append(before, seq[n])

\* The position (from 0) of a pair in the list of unique pairs.
unique_position(unique, pair) ==
    (CHOOSE i \in 1..Len(unique) : unique[i] = pair) - 1

\* A sequence left at its own length.
padded_not(seq, width, pad) == seq

\* A sequence padded with the value pad up to the length width.
padded(seq, width, pad) ==
    [i \in 1..(IF width > Len(seq) THEN width ELSE Len(seq)) |->
        IF i <= Len(seq) THEN seq[i] ELSE pad]

\* The longest row of a rule.
max_row_len(rule) ==
    IF Len(rule) = 0 THEN 0
    ELSE CHOOSE n \in {Len(rule[k].coeffs) : k \in 1..Len(rule)} :
             \A k \in 1..Len(rule) : Len(rule[k].coeffs) <= n

\* The row of indices into the unique pairs of an entry: one index per row of
\* the entry, a pair that occurs again being given its index only once.
linear_combo_indices_deduplicated(unique, entry) ==
    [m \in 1..Len(entry.pairs) |->
        IF \E l \in 1..(m - 1) : entry.pairs[l] = entry.pairs[m] THEN -1
        ELSE unique_position(unique, entry.pairs[m])]

\* The row of indices into the unique pairs of an entry: one index per row of
\* the entry.
linear_combo_indices(unique, entry) ==
    [m \in 1..Len(entry.pairs) |-> unique_position(unique, entry.pairs[m])]

\* The compiled rule with the offset added to the left indices only.
compiled_tables_offset_left(rule, unique, unique_len, combo_len, index_offset) ==
    [unique_pairs |->
         padded([i \in 1..Len(unique) |-> <<unique[i][1] + index_offset, unique[i][2]>>],
                unique_len, <<-1, -1>>),
     coeffs |-> [k \in 1..Len(rule) |-> padded(rule[k].coeffs, combo_len, 0)],
     indices |-> [k \in 1..Len(rule) |->
                     padded(linear_combo_indices(unique, rule[k]), combo_len, -1)]]

\* The compiled rule, given the unique pairs and the widths of the tables.
compiled_tables(rule, unique, unique_len, combo_len, index_offset) ==
    [unique_pairs |->
         padded([i \in 1..Len(unique) |->
                    <<unique[i][1] + index_offset, unique[i][2] + index_offset>>],
                unique_len, <<-1, -1>>),
     coeffs |-> [k \in 1..Len(rule) |-> padded(rule[k].coeffs, combo_len, 0)],
     indices |-> [k \in 1..Len(rule) |->
                     padded(linear_combo_indices(unique, rule[k]), combo_len, -1)]]

\* _compile_custom_operation_rule(operation_rule, unique_evaluation_len,
\* linear_combo_len, index_offset); a length of -1 is the default (None).
compile_custom_operation_rule(rule, unique_evaluation_len, linear_combo_len, index_offset) ==
    compiled_tables(
        rule,
        unique_in_order(all_pairs(rule, Len(rule)), Len(all_pairs(rule, Len(rule)))),
        unique_evaluation_len,
        IF linear_combo_len = -1 THEN max_row_len(rule) ELSE linear_combo_len,
        index_offset)

\* The operations on two operands: A @ B and A * B (elementwise).
np_multiply(a, b) ==
    [i \in 1..Rows(a) |-> [j \in 1..Cols(a) |-> CMul(a[i][j], b[i][j])]]

binary_op(op, a, b) == IF op = "matmul" THEN matmul(a, b) ELSE np_multiply(a, b)

zeros_like(m) == [i \in 1..Rows(m) |-> [j \in 1..Cols(m) |-> CZero]]

\* binary_op on every unique pair; a padded pair (-1, -1) is not looked up.
unique_evaluations(unique_pairs, op, A, B) ==
    [u \in 1..Len(unique_pairs) |->
        IF unique_pairs[u][1] = -1 THEN zeros_like(binary_op(op, A[1], B[1]))
        ELSE binary_op(op, A[unique_pairs[u][1] + 1], B[unique_pairs[u][2] + 1])]

RECURSIVE linear_combo(_, _, _, _, _)
\* The sum over the first s slots of a row of coefficient * evaluation; a
\* padded slot (index -1) is skipped.
linear_combo(coeffs, indices, evaluations, s, zero) ==
    IF s = 0 THEN zero
    ELSE IF indices[s] = -1 THEN linear_combo(coeffs, indices, evaluations, s - 1, zero)
    ELSE mat_add(linear_combo(coeffs, indices, evaluations, s - 1, zero),
                 scale(<<coeffs[s], 0>>, evaluations[indices[s] + 1]))

\* The evaluation of a compiled rule on the batches A and B.
evaluate_compiled(compiled, evaluations, zero) ==
    [k \in 1..Len(compiled.coeffs) |->
        linear_combo(compiled.coeffs[k], compiled.indices[k], evaluations,
                     Len(compiled.coeffs[k]), zero)]

custom_binary_op(compiled, op, A, B) ==
    evaluate_compiled(compiled,
                      unique_evaluations(compiled.unique_pairs, op, A, B),
                      zeros_like(binary_op(op, A[1], B[1])))

\* _CustomBinaryOp(operation_rule, binary_op)(A, B), over the tables of the
\* rule compiled with the given lengths (-1: the default).
CustomBinaryOp(operation_rule, unique_evaluation_len, linear_combo_len, op, A, B) ==
    custom_binary_op(compile_custom_operation_rule(operation_rule, unique_evaluation_len,
                                                   linear_combo_len, 0),
                     op, A, B)

\* Operands that are not square: 1 x 2 on the left, 2 x 1 on the right.
Row(a, b) == <<<<<<a, 0>>, <<b, 0>>>>>>
Column(a, b) == <<<<<<a, 0>>>>, <<<<b, 0>>>>>>

\* The batches of operands.
LeftBatches ==
    {<<X2, Z2, P0>>, <<Sp2>>, <<Y2, X2>>, <<Row(1, 2), Row(0, 1), Row(3, -1)>>}

RightBatches ==
    {<<Z2, Y2, Sm2>>, <<P1, X2>>, <<Column(1, 1), Column(2, 0), Column(-1, 4)>>}

\* The indices of a rule are indices of the batches, and the operands have
\* shapes the operation accepts.
Applicable(rule, op, A, B) ==
    /\ \A k \in 1..Len(rule) : \A m \in 1..Len(rule[k].pairs) :
           rule[k].pairs[m][1] < Len(A) /\ rule[k].pairs[m][2] < Len(B)
    /\ IF op = "matmul" THEN Cols(A[1]) = Rows(B[1])
       ELSE Rows(A[1]) = Rows(B[1]) /\ Cols(A[1]) = Cols(B[1])

\* The number of unique pairs of a rule.
n_unique(rule) ==
    Len(unique_in_order(all_pairs(rule, Len(rule)), Len(all_pairs(rule, Len(rule)))))

\* _compile_custom_operation_rule(rule, unique_evaluation_len, linear_combo_len,
\* index_offset)
CompileRule(rule, unique_evaluation_len, linear_combo_len, index_offset) ==
    /\ call' = [fn |-> "_compile_custom_operation_rule", operation_rule |-> rule,
                unique_evaluation_len |-> unique_evaluation_len,
                linear_combo_len |-> linear_combo_len,
                index_offset |-> index_offset]
    /\ ret' = Return("compiled",
                     compile_custom_operation_rule(rule, unique_evaluation_len,
                                                   linear_combo_len, index_offset))
    /\ UNCHANGED <<nodes, builder, ncalls, lindblad_model, mpo_builder>>

\* _CustomBinaryOp(rule, binary_op)(A, B)
ApplyCustomBinaryOp(rule, unique_evaluation_len, linear_combo_len, op, A, B) ==
    /\ Applicable(rule, op, A, B)
    /\ call' = [fn |-> "_CustomBinaryOp", operation_rule |-> rule,
                unique_evaluation_len |-> unique_evaluation_len,
                linear_combo_len |-> linear_combo_len,
                binary_op |-> op, A |-> A, B |-> B]
    /\ ret' = Return("array", CustomBinaryOp(rule, unique_evaluation_len,
                                             linear_combo_len, op, A, B))
    /\ UNCHANGED <<nodes, builder, ncalls, lindblad_model, mpo_builder>>

NextBinaryOp ==
    \/ \E rule \in Rules, pad \in 0..MaxPad, index_offset \in {0, 1} :
           \/ CompileRule(rule, -1, -1, index_offset)
           \/ CompileRule(rule, n_unique(rule) + pad, max_row_len(rule) + pad,
                          index_offset)
    \/ \E rule \in Rules, op \in {"matmul", "mul"},
          A \in LeftBatches, B \in RightBatches, pad \in 0..MaxPad :
           \/ ApplyCustomBinaryOp(rule, -1, -1, op, A, B)
           \/ ApplyCustomBinaryOp(rule, n_unique(rule) + pad, max_row_len(rule) + pad,
                                  op, A, B)

SpecBinaryOp == Init /\ [][NextBinaryOp]_vars

\* The compilation alone, each of the two lengths given or left to its default.
NextCompile ==
    \E rule \in Rules, index_offset \in {0, 1} :
        \E unique_evaluation_len \in {-1} \cup {n_unique(rule) + pad : pad \in 0..MaxPad},
           linear_combo_len \in {-1} \cup {max_row_len(rule) + pad : pad \in 0..MaxPad} :
            CompileRule(rule, unique_evaluation_len, linear_combo_len, index_offset)

SpecCompile == Init /\ [][NextCompile]_vars

----------------------------------------------------------------------------
(* C20: the evaluation of an operation rule *)

RECURSIVE EntrySum(_, _, _, _, _)
\* The sum over the first m rows of an entry of
\* coefficient * binary_op(A[i], B[j]).
EntrySum(entry, op, A, B, m) ==
    IF m = 0 THEN zeros_like(binary_op(op, A[1], B[1]))
    ELSE mat_add(EntrySum(entry, op, A, B, m - 1),
                 scale(<<entry.coeffs[m], 0>>,
                       binary_op(op, A[entry.pairs[m][1] + 1], B[entry.pairs[m][2] + 1])))

\* C20: _CustomBinaryOp(rule, binary_op)(A, B) returns one array per entry of
\* the rule, the k-th being the sum over the rows m of the entry of
\* coeffs[m] * binary_op(A[i_m], B[j_m]), whatever the lengths the tables are
\* padded to; for the rule ([1,2,3], [[0,2],[0,0],[0,0]]) that is
\* op(A0,B2) + 5 * op(A0,B0).
C20_RuleEvaluatesToItsSums ==
    call.fn = "_CustomBinaryOp" =>
        /\ ret.kind = "array"
        /\ Len(ret.value) = Len(call.operation_rule)
        /\ \A k \in 1..Len(call.operation_rule) :
               ret.value[k] = EntrySum(call.operation_rule[k], call.binary_op,
                                       call.A, call.B,
                                       Len(call.operation_rule[k].coeffs))
        /\ call.operation_rule = mult_rule2 =>
               ret.value[1] =
                   mat_add(binary_op(call.binary_op, call.A[1], call.B[3]),
                           scale(<<5, 0>>, binary_op(call.binary_op, call.A[1], call.B[1])))

\* The rule with a repeated pair was evaluated, over padded tables, on
\* batches of the sizes 1 and 3, and the repeated pair counts.
C20_Witness ==
    /\ call.fn = "_CustomBinaryOp"
    /\ call.operation_rule = mult_rule2
    /\ call.unique_evaluation_len > n_unique(mult_rule2)
    /\ call.linear_combo_len > max_row_len(mult_rule2)
    /\ Len(call.A) = 1
    /\ Len(call.B) = 3
    /\ ret.kind = "array"
    /\ ret.value[1] # zeros_like(ret.value[1])

----------------------------------------------------------------------------
(* C21: the table of unique pairs *)

CompileCall == call.fn = "_compile_custom_operation_rule"

\* The pairs of the rule of the call, entry after entry.
RulePairs == all_pairs(call.operation_rule, Len(call.operation_rule))

\* The rows of the returned table of unique pairs that are not padding, with
\* the offset of the call taken off.
ReportedPairs ==
    LET table == ret.value.unique_pairs
        real == {i \in 1..Len(table) : table[i] # <<-1, -1>>}
    IN  [i \in 1..Cardinality(real) |->
            <<table[i][1] - call.index_offset, table[i][2] - call.index_offset>>]

\* The first place of a pair in the rule.
FirstSeen(pair) ==
    CHOOSE i \in 1..Len(RulePairs) :
        RulePairs[i] = pair /\ \A j \in 1..(i - 1) : RulePairs[j] # pair

\* C21: the table of unique pairs that _compile_custom_operation_rule returns
\* lists every pair of the rule exactly once, in the order in which the pairs
\* are first met when the entries are scanned in order; padding rows come
\* after all of them.
C21_UniquePairsInFirstSeenOrder ==
    CompileCall =>
        /\ \A i \in 1..Len(ReportedPairs) :
               /\ ret.value.unique_pairs[i] # <<-1, -1>>
               /\ \E j \in 1..Len(RulePairs) : RulePairs[j] = ReportedPairs[i]
        /\ \A i, j \in 1..Len(ReportedPairs) :
               i # j => ReportedPairs[i] # ReportedPairs[j]
        /\ \A j \in 1..Len(RulePairs) :
               \E i \in 1..Len(ReportedPairs) : ReportedPairs[i] = RulePairs[j]
        /\ \A i, j \in 1..Len(ReportedPairs) :
               i < j => FirstSeen(ReportedPairs[i]) < FirstSeen(ReportedPairs[j])
        /\ call.operation_rule = mult_rule1 =>
               ReportedPairs = <<<<0, 2>>, <<1, 1>>, <<2, 0>>>>
        /\ call.operation_rule = mult_rule2 => ReportedPairs = <<<<0, 2>>, <<0, 0>>>>

\* A rule in which a pair occurs again, inside an entry and in a later entry,
\* was compiled.
C21_Witness ==
    /\ CompileCall
    /\ ret.kind = "compiled"
    /\ Len(call.operation_rule) > 1
    /\ Len(ReportedPairs) < Len(RulePairs) - 1

----------------------------------------------------------------------------
(* C22: the padded tables *)

\* The widths asked for, the defaults filled in.
UniqueLen ==
    IF call.unique_evaluation_len = -1 THEN Cardinality({RulePairs[j] : j \in 1..Len(RulePairs)})
    ELSE call.unique_evaluation_len

ComboLen ==
    IF call.linear_combo_len = -1
    THEN CHOOSE n \in {Len(call.operation_rule[k].coeffs) : k \in 1..Len(call.operation_rule)} :
             \A k \in 1..Len(call.operation_rule) : Len(call.operation_rule[k].coeffs) <= n
    ELSE call.linear_combo_len

\* C22: in the compiled rule every row of the coefficient table and of the
\* index table has the width linear_combo_len (by default the longest entry);
\* row k holds the coefficients of entry k in their order and then 0, and the
\* positions of the pairs of entry k in the table of unique pairs and then -1;
\* the table of unique pairs has unique_evaluation_len rows (by default the
\* number of unique pairs), those after the unique pairs being [-1, -1]; an
\* index that is not padding points at the pair of the entry.
C22_TablesArePadded ==
    CompileCall =>
        LET rule == call.operation_rule
            t == ret.value
        IN  /\ Len(t.coeffs) = Len(rule)
            /\ Len(t.indices) = Len(rule)
            /\ Len(t.unique_pairs) = UniqueLen
            /\ \A i \in 1..Len(t.unique_pairs) :
                   i > Len(ReportedPairs) => t.unique_pairs[i] = <<-1, -1>>
            /\ \A k \in 1..Len(rule) :
                   /\ Len(t.coeffs[k]) = ComboLen
                   /\ Len(t.indices[k]) = ComboLen
                   /\ \A m \in 1..ComboLen :
                          IF m <= Len(rule[k].coeffs)
                          THEN /\ t.coeffs[k][m] = rule[k].coeffs[m]
                               /\ t.indices[k][m] \in 0..(Len(ReportedPairs) - 1)
                               /\ ReportedPairs[t.indices[k][m] + 1] = rule[k].pairs[m]
                          ELSE /\ t.coeffs[k][m] = 0
                               /\ t.indices[k][m] = -1
            /\ (rule = mult_rule1 /\ call.unique_evaluation_len = 5
                    /\ call.linear_combo_len = 6 /\ call.index_offset = 0) =>
                   /\ t.unique_pairs =
                          <<<<0, 2>>, <<1, 1>>, <<2, 0>>, <<-1, -1>>, <<-1, -1>>>>
                   /\ t.coeffs = <<<<1, 2, 3, 0, 0, 0>>, <<1, 0, 0, 0, 0, 0>>,
                                   <<3, 0, 0, 0, 0, 0>>>>
                   /\ t.indices = <<<<0, 1, 2, -1, -1, -1>>, <<0, -1, -1, -1, -1, -1>>,
                                    <<1, -1, -1, -1, -1, -1>>>>

\* The rule of the padding test was compiled with unique_evaluation_len = 5
\* and linear_combo_len = 6.
C22_Witness ==
    /\ CompileCall
    /\ call.operation_rule = mult_rule1
    /\ call.unique_evaluation_len = 5
    /\ call.linear_combo_len = 6
    /\ ret.kind = "compiled"
    /\ ret.value.indices[2][2] = -1

----------------------------------------------------------------------------
(* C23: the index offset *)

\* C23: a rule compiled with index_offset = d has the tables of the same rule
\* compiled with the same lengths and index_offset = 0, but for d added to
\* both indices of every unique pair (the padding rows [-1, -1] stay).
C23_OffsetShiftsUniquePairsOnly ==
    CompileCall =>
        LET base == compile_custom_operation_rule(call.operation_rule,
                                                  call.unique_evaluation_len,
                                                  call.linear_combo_len, 0)
            t == ret.value
        IN  /\ t.coeffs = base.coeffs
            /\ t.indices = base.indices
            /\ Len(t.unique_pairs) = Len(base.unique_pairs)
            /\ \A i \in 1..Len(base.unique_pairs) :
                   t.unique_pairs[i] =
                       IF base.unique_pairs[i] = <<-1, -1>> THEN <<-1, -1>>
                       ELSE <<base.unique_pairs[i][1] + call.index_offset,
                              base.unique_pairs[i][2] + call.index_offset>>
            /\ (call.operation_rule = mult_rule1 /\ call.index_offset = 1
                    /\ call.unique_evaluation_len = -1) =>
                   t.unique_pairs = <<<<1, 3>>, <<2, 2>>, <<3, 1>>>>

\* The rule of the offset test was compiled with index_offset = 1.
C23_Witness ==
    /\ CompileCall
    /\ call.operation_rule = mult_rule1
    /\ call.index_offset = 1
    /\ call.unique_evaluation_len = -1
    /\ ret.kind = "compiled"
    /\ ret.value.unique_pairs[1] = <<1, 3>>

----------------------------------------------------------------------------
(* LindbladModel: the operators of the model and its two lists of signals.   *)
(* An operator is named; a list of operators is None or Some(<<names>>).  No *)
(* rotating frame is given, so that operators are stored as they are passed, *)
(* and the Hamiltonian parts passed are Hermitian.                           *)

\* A value passed or stored as signals: None, a list, a SignalList, or a
\* value of another type.
Signals(type, items) == [type |-> type, items |-> items]
NoSignals == Signals("NoneType", <<>>)
SignalList(items) == Signals("SignalList", items)

\* The values assigned as one part of the signals.
SignalValues ==
    {NoSignals, Signals("list", <<"s1">>), Signals("list", <<"s1", "s2">>),
     SignalList(<<"s3">>), Signals("tuple", <<"s1">>)}

\* [1.0] * n; a signal is named, the constant 1.0 by "1.0".
RECURSIVE ones(_)
ones(n) == IF n = 0 THEN <<>> ELSE Append(ones(n - 1), "1.0")

\* One part of the signals, not None, converted and checked against the
\* operators it belongs to, without a check of its length.
checked_signals_any_length(signals, operators, part) ==
    IF operators = None
    THEN Raise("QiskitError", <<part, "signals must be None">>)
    ELSE IF (IF signals.type = "list" THEN "SignalList" ELSE signals.type) # "SignalList"
    THEN Raise("QiskitError", <<part, "unaccepted format">>)
    ELSE Return("signals", SignalList(signals.items))

\* One part of the signals, not None, converted and checked against the
\* operators it belongs to.
checked_signals(signals, operators, part) ==
    IF operators = None
    THEN Raise("QiskitError", <<part, "signals must be None">>)
    ELSE IF (IF signals.type = "list" THEN "SignalList" ELSE signals.type) # "SignalList"
    THEN Raise("QiskitError", <<part, "unaccepted format">>)
    ELSE IF Len(signals.items) # Len(operators[1])
    THEN Raise("QiskitError", <<part, "same length">>)
    ELSE Return("signals", SignalList(signals.items))

\* The fields and the outcome of the setter, given the fields before and the
\* checked part.
signals_assigned(hamiltonian_signals, dissipator_signals, checked) ==
    IF checked.kind = "raise"
    THEN [ret |-> checked,
          hamiltonian_signals |-> hamiltonian_signals,
          dissipator_signals |-> dissipator_signals]
    ELSE [ret |-> Return("None", <<>>),
          hamiltonian_signals |-> hamiltonian_signals,
          dissipator_signals |-> checked.value]

\* The second half of the setter: the dissipator signals.
set_dissipator_signals(collection, hamiltonian_signals, old_dissipator_signals, dissipator_signals) ==
    IF dissipator_signals.type = "NoneType"
    THEN [ret |-> Return("None", <<>>),
          hamiltonian_signals |-> hamiltonian_signals,
          dissipator_signals |->
              IF collection.dissipator_operators # None
              THEN SignalList(ones(Len(collection.dissipator_operators[1])))
              ELSE NoSignals]
    ELSE signals_assigned(hamiltonian_signals, old_dissipator_signals,
                          checked_signals(dissipator_signals,
                                          collection.dissipator_operators, "Dissipator"))

\* The first half of the setter, given the checked Hamiltonian signals: an
\* error leaves both fields, otherwise the Hamiltonian field is assigned and
\* the dissipator signals are looked at.
set_hamiltonian_signals(collection, old, checked, dissipator_signals) ==
    IF checked.kind = "raise"
    THEN [ret |-> checked,
          hamiltonian_signals |-> old.hamiltonian_signals,
          dissipator_signals |-> old.dissipator_signals]
    ELSE set_dissipator_signals(collection, checked.value, old.dissipator_signals,
                                dissipator_signals)

\* LindbladModel.signals = (hamiltonian_signals, dissipator_signals), on a
\* model with the operators collection and the signals old.
signals_setter(collection, old, hamiltonian_signals, dissipator_signals) ==
    set_hamiltonian_signals(
        collection, old,
        IF hamiltonian_signals.type = "NoneType" THEN Return("signals", NoSignals)
        ELSE checked_signals(hamiltonian_signals, collection.hamiltonian_operators,
                             "Hamiltonian"),
        dissipator_signals)

EvaluationModes == {"dense", "sparse", "dense_vectorized", "sparse_vectorized"}

\* LindbladModel.construct_operator_collection
construct_operator_collection(evaluation_mode, static_hamiltonian, hamiltonian_operators, static_dissipators, dissipator_operators) ==
    IF evaluation_mode \in EvaluationModes
    THEN Return("collection",
                [dissipator_operators |-> dissipator_operators,
                 hamiltonian_operators |-> hamiltonian_operators,
                 static_hamiltonian |-> static_hamiltonian,
                 static_dissipators |-> static_dissipators])
    ELSE Raise("NotImplementedError", <<evaluation_mode>>)

\* The arguments of LindbladModel(...).
ModelArgs(static_hamiltonian, hamiltonian_operators, hamiltonian_signals, static_dissipators, dissipator_operators, dissipator_signals, evaluation_mode) ==
    [hamiltonian_signals |-> hamiltonian_signals,
     dissipator_signals |-> dissipator_signals,
     dissipator_operators |-> dissipator_operators,
     hamiltonian_operators |-> hamiltonian_operators,
     evaluation_mode |-> evaluation_mode,
     static_hamiltonian |-> static_hamiltonian,
     static_dissipators |-> static_dissipators]

\* The model that __init__ leaves, given the outcome of its assignment to
\* self.signals.
constructed(evaluation_mode, collection, set) ==
    IF set.ret.kind = "raise" THEN [ret |-> set.ret,
                                    model |-> None]
    ELSE [ret |-> Return("LindbladModel", <<>>),
          model |-> Some([hamiltonian_signals |-> set.hamiltonian_signals,
                          dissipator_signals |-> set.dissipator_signals,
                          evaluation_mode |-> evaluation_mode,
                          operator_collection |-> collection])]

\* __init__ from the operator collection on.
init_with_collection(args, collection) ==
    IF collection.kind = "raise" THEN [ret |-> collection,
                                       model |-> None]
    ELSE constructed(args.evaluation_mode, collection.value,
                     signals_setter(collection.value,
                                    [hamiltonian_signals |-> NoSignals,
                                     dissipator_signals |-> NoSignals],
                                    args.hamiltonian_signals, args.dissipator_signals))

\* LindbladModel.__init__
LindbladModel_init(args) ==
    IF /\ args.static_hamiltonian = None
       /\ args.hamiltonian_operators = None
       /\ args.static_dissipators = None
       /\ args.dissipator_operators = None
    THEN [ret |-> Raise("QiskitError", <<"requires at least one of">>),
          model |-> None]
    ELSE init_with_collection(
             args,
             construct_operator_collection(args.evaluation_mode, args.static_hamiltonian,
                                           args.hamiltonian_operators,
                                           args.static_dissipators,
                                           args.dissipator_operators))

\* A HamiltonianModel, as from_hamiltonian reads it.
HamiltonianModel(static_operator, operators, signals, evaluation_mode) ==
    [operators |-> operators,
     signals |-> signals,
     evaluation_mode |-> evaluation_mode,
     static_operator |-> static_operator]

HamiltonianModels ==
    {HamiltonianModel(Some("Z"), Some(<<"X">>), SignalList(<<"s1">>), "dense"),
     HamiltonianModel(None, Some(<<"X", "Y">>), SignalList(<<"s1", "s2">>), "sparse"),
     HamiltonianModel(Some("Z"), None, NoSignals, "dense_vectorized")}

\* LindbladModel.from_hamiltonian; an evaluation_mode of None is that of the
\* Hamiltonian.
from_hamiltonian(hamiltonian, static_dissipators, dissipator_operators, dissipator_signals, evaluation_mode) ==
    LindbladModel_init(
        ModelArgs(hamiltonian.static_operator, hamiltonian.operators, hamiltonian.signals,
                  None, dissipator_operators, dissipator_signals,
                  IF evaluation_mode = None THEN hamiltonian.evaluation_mode
                  ELSE evaluation_mode[1]))

\* The model becomes the one made, or stays when none was made.
Made(made) ==
    /\ ret' = made.ret
    /\ IF made.model = None
       THEN UNCHANGED lindblad_model
       ELSE /\ self_operator_collection' = Some(made.model[1].operator_collection)
            /\ self_evaluation_mode' = Some(made.model[1].evaluation_mode)
            /\ self_hamiltonian_signals' = made.model[1].hamiltonian_signals
            /\ self_dissipator_signals' = made.model[1].dissipator_signals
    /\ UNCHANGED <<nodes, builder, ncalls, mpo_builder>>

\* LindbladModel(static_hamiltonian, ..., evaluation_mode)
NewLindbladModel(args) ==
    /\ call' = [fn |-> "LindbladModel", args |-> args]
    /\ Made(LindbladModel_init(args))

\* LindbladModel.from_hamiltonian(hamiltonian, static_dissipators,
\* dissipator_operators, dissipator_signals, evaluation_mode)
FromHamiltonian(hamiltonian, static_dissipators, dissipator_operators, dissipator_signals, evaluation_mode) ==
    /\ call' = [fn |-> "from_hamiltonian",
                dissipator_signals |-> dissipator_signals,
                dissipator_operators |-> dissipator_operators,
                evaluation_mode |-> evaluation_mode,
                static_dissipators |-> static_dissipators,
                hamiltonian |-> hamiltonian]
    /\ Made(from_hamiltonian(hamiltonian, static_dissipators, dissipator_operators,
                             dissipator_signals, evaluation_mode))

\* The fields after the setter.
SignalsSet(set) ==
    /\ self_hamiltonian_signals' = set.hamiltonian_signals
    /\ self_dissipator_signals' = set.dissipator_signals
    /\ ret' = set.ret

\* model.signals = (hamiltonian_signals, dissipator_signals)
SetSignals(hamiltonian_signals, dissipator_signals) ==
    /\ self_operator_collection # None
    /\ call' = [fn |-> "signals", hamiltonian_signals |-> hamiltonian_signals,
                dissipator_signals |-> dissipator_signals]
    /\ SignalsSet(signals_setter(self_operator_collection[1],
                                 [hamiltonian_signals |-> self_hamiltonian_signals,
                                  dissipator_signals |-> self_dissipator_signals],
                                 hamiltonian_signals, dissipator_signals))
    /\ UNCHANGED <<nodes, builder, ncalls, mpo_builder,
                   self_operator_collection, self_evaluation_mode>>

\* The operators given to the constructors.
HamiltonianOperators == {None, Some(<<"X">>), Some(<<"X", "Y">>)}
StaticDissipators == {None, Some(<<"Sm">>)}
DissipatorOperators == {None, Some(<<"Sp">>), Some(<<"Sp", "Z">>)}

NextLindblad ==
    \/ \E static_hamiltonian \in {None, Some("Z")},
          hamiltonian_operators \in HamiltonianOperators,
          static_dissipators \in StaticDissipators,
          dissipator_operators \in DissipatorOperators,
          given \in BOOLEAN :
           NewLindbladModel(
               ModelArgs(static_hamiltonian, hamiltonian_operators,
                         IF given THEN Signals("list", <<"s1">>) ELSE NoSignals,
                         static_dissipators, dissipator_operators,
                         IF given THEN Signals("list", <<"s1", "s2">>) ELSE NoSignals,
                         "dense"))
    \/ NewLindbladModel(ModelArgs(Some("Z"), None, NoSignals, None, None, NoSignals,
                                  "dense_vectorised"))
    \/ \E hamiltonian \in HamiltonianModels,
          static_dissipators \in StaticDissipators,
          dissipator_operators \in DissipatorOperators,
          dissipator_signals \in {NoSignals, Signals("list", <<"s1">>)} :
           \/ FromHamiltonian(hamiltonian, static_dissipators, dissipator_operators,
                              dissipator_signals, None)
           \/ /\ dissipator_signals = NoSignals
              /\ FromHamiltonian(hamiltonian, static_dissipators, dissipator_operators,
                                 dissipator_signals, Some("sparse_vectorized"))
    \/ \E hamiltonian_signals \in SignalValues, dissipator_signals \in SignalValues :
           SetSignals(hamiltonian_signals, dissipator_signals)

SpecLindblad == Init /\ [][NextLindblad]_vars

----------------------------------------------------------------------------
(* C24: from_hamiltonian *)

\* The signals stored for a part whose signals were passed as given.
StoredFor(given, operators) ==
    IF given.type = "NoneType"
    THEN IF operators = None THEN NoSignals ELSE SignalList(ones(Len(operators[1])))
    ELSE SignalList(given.items)

\* C24: the model that from_hamiltonian(hamiltonian, static_dissipators,
\* dissipator_operators, dissipator_signals) returns has the static
\* dissipators, the dissipator operators and the dissipator signals that were
\* passed, and the static operator, the operators and the signals of the
\* Hamiltonian.
C24_FromHamiltonianKeepsArguments ==
    (call.fn = "from_hamiltonian" /\ ret.kind # "raise") =>
        /\ self_operator_collection[1].static_dissipators = call.static_dissipators
        /\ self_operator_collection[1].dissipator_operators = call.dissipator_operators
        /\ self_dissipator_signals =
               StoredFor(call.dissipator_signals, call.dissipator_operators)
        /\ self_operator_collection[1].static_hamiltonian = call.hamiltonian.static_operator
        /\ self_operator_collection[1].hamiltonian_operators = call.hamiltonian.operators
        /\ self_hamiltonian_signals = call.hamiltonian.signals

----------------------------------------------------------------------------
(* C25: the signals after an assignment *)

\* A value is acceptable as the signals of the operators: None always for the
\* Hamiltonian part; otherwise a list or a SignalList with one signal per
\* operator, the operators being present.
Acceptable(signals, operators) ==
    \/ signals.type = "NoneType"
    \/ /\ operators # None
       /\ signals.type \in {"list", "SignalList"}
       /\ Len(signals.items) = Len(operators[1])

\* C25: after a successful assignment to LindbladModel.signals (the one of
\* the constructor included) the Hamiltonian signals are None or a SignalList
\* with one signal per Hamiltonian operator; the dissipator signals are None
\* exactly when the model has no dissipator operators and otherwise a
\* SignalList with one signal per dissipator operator, all the constant 1.0
\* when None was assigned.  The assignment raises QiskitError exactly when a
\* part is not None and is given for absent operators, is neither a list nor a
\* SignalList, or has another length than the operators.
C25_SignalsMatchOperators ==
    /\ (call.fn \in {"signals", "LindbladModel", "from_hamiltonian"}
            /\ ret.kind # "raise") =>
           LET collection == self_operator_collection[1]
           IN  /\ \/ self_hamiltonian_signals = NoSignals
                  \/ /\ self_hamiltonian_signals.type = "SignalList"
                     /\ collection.hamiltonian_operators # None
                     /\ Len(self_hamiltonian_signals.items) =
                            Len(collection.hamiltonian_operators[1])
               /\ (self_dissipator_signals = NoSignals) <=>
                      (collection.dissipator_operators = None)
               /\ collection.dissipator_operators # None =>
                      /\ self_dissipator_signals.type = "SignalList"
                      /\ Len(self_dissipator_signals.items) =
                             Len(collection.dissipator_operators[1])
               /\ (call.fn = "signals" /\ call.dissipator_signals = NoSignals
                       /\ collection.dissipator_operators # None) =>
                      \A i \in 1..Len(self_dissipator_signals.items) :
                          self_dissipator_signals.items[i] = "1.0"
    /\ call.fn = "signals" =>
           /\ ret.kind = "raise" <=>
                  ~ /\ Acceptable(call.hamiltonian_signals,
                                  self_operator_collection[1].hamiltonian_operators)
                    /\ Acceptable(call.dissipator_signals,
                                  self_operator_collection[1].dissipator_operators)
           /\ ret.kind = "raise" => ret.error = "QiskitError"

\* Signals were assigned to a model with two dissipator operators, None for
\* the dissipator part, and the assignment succeeded.
C25_Witness ==
    /\ call.fn = "signals"
    /\ ret.kind # "raise"
    /\ call.hamiltonian_signals.type = "list"
    /\ call.dissipator_signals = NoSignals
    /\ self_operator_collection[1].dissipator_operators = Some(<<"Sp", "Z">>)
    /\ self_dissipator_signals = SignalList(<<"1.0", "1.0">>)

----------------------------------------------------------------------------
(* C30: an assignment to signals that raises *)

\* C30: an assignment to LindbladModel.signals that raises leaves both the
\* Hamiltonian signals and the dissipator signals of the model as they were.
C30_FailedAssignmentChangesNothing ==
    [][(call'.fn = "signals" /\ ret'.kind = "raise") =>
           /\ self_hamiltonian_signals' = self_hamiltonian_signals
           /\ self_dissipator_signals' = self_dissipator_signals]_vars

----------------------------------------------------------------------------
(* solve_lmde and solve_ode: the choice of the solver.  The solvers and the  *)
(* frame transformations are not computed; a result records which of them    *)
(* ran, in order.                                                            *)

ODE_METHODS == {"RK45", "RK23", "BDF", "DOP853", "Radau", "LSODA", "jax_odeint"}
LMDE_METHODS == {"scipy_expm", "jax_expm"}

\* A method argument: a string, a subclass of OdeSolver, or another class.
Method(type, name) == [type |-> type, name |-> name]

Methods ==
    {Method("str", m) : m \in ODE_METHODS \cup LMDE_METHODS \cup {"RK4"}}
        \cup {Method("OdeSolver subclass", "RK45"), Method("class", "dict")}

\* A generator or right-hand side: a function or a model of some class; the
\* evaluation mode is that of a model ("" for a function).
Generator(class, evaluation_mode) == [class |-> class, evaluation_mode |-> evaluation_mode]

Generators ==
    {Generator("function", ""), Generator("GeneratorModel", "dense"),
     Generator("HamiltonianModel", "sparse")}
        \cup {Generator("LindbladModel", mode) : mode \in EvaluationModes}

\* isinstance(generator, BaseGeneratorModel)
IsBaseGeneratorModel(generator) ==
    generator.class \in {"GeneratorModel", "HamiltonianModel", "LindbladModel"}

\* "vectorized" in evaluation_mode
vectorized_in(evaluation_mode) ==
    evaluation_mode \in {"dense_vectorized", "sparse_vectorized"}

\* method in ODE_METHODS or (inspect.isclass(method) and
\* issubclass(method, OdeSolver))
is_ode_method(method) ==
    \/ method.type = "str" /\ method.name \in ODE_METHODS
    \/ method.type = "OdeSolver subclass"

\* method in LMDE_METHODS
is_lmde_method(method) == method.type = "str" /\ method.name \in LMDE_METHODS

\* What runs around and in a solver for the generator or right-hand side.
solver_steps(generator, solver) ==
    IF IsBaseGeneratorModel(generator)
    THEN <<"setup_generator_model_rhs_y0_in_frame_basis", solver,
           "results_y_out_of_frame_basis">>
    ELSE <<solver>>

\* An OdeResult, with the function that produced it and what ran.
OdeResult(solved_by, ran) == Return("OdeResult", [solved_by |-> solved_by, ran |-> ran])

\* solve_ode(rhs, t_span, y0, method)
solve_ode(rhs, method) ==
    IF ~is_ode_method(method)
    THEN Raise("QiskitError", <<"not supported by solve_ode">>)
    ELSE OdeResult("solve_ode",
                   solver_steps(rhs, IF method.type = "str" /\ method.name = "jax_odeint"
                                     THEN "jax_odeint" ELSE "scipy_solve_ivp"))

\* solve_lmde without the check of the evaluation mode of a LindbladModel.
solve_lmde_unchecked(generator, method) ==
    IF ~is_lmde_method(method)
    THEN IF is_ode_method(method) THEN solve_ode(generator, method)
         ELSE Raise("QiskitError", <<"not supported by solve_lmde">>)
    ELSE OdeResult("solve_lmde",
                   solver_steps(generator, IF method.name = "scipy_expm"
                                           THEN "scipy_expm_solver"
                                           ELSE "jax_expm_solver"))

\* solve_lmde(generator, t_span, y0, method)
solve_lmde(generator, method) ==
    IF /\ generator.class = "LindbladModel"
       /\ ~vectorized_in(generator.evaluation_mode)
       /\ is_lmde_method(method)
    THEN Raise("QiskitError", <<"requires setting a vectorized evaluation mode">>)
    ELSE IF ~is_lmde_method(method)
    THEN IF is_ode_method(method) THEN solve_ode(generator, method)
         ELSE Raise("QiskitError", <<"not supported by solve_lmde">>)
    ELSE OdeResult("solve_lmde",
                   solver_steps(generator, IF method.name = "scipy_expm"
                                           THEN "scipy_expm_solver"
                                           ELSE "jax_expm_solver"))

\* solve_lmde(generator, t_span, y0, method=method)
SolveLmde(generator, method) ==
    /\ call' = [fn |-> "solve_lmde", generator |-> generator, method |-> method]
    /\ ret' = solve_lmde(generator, method)
    /\ UNCHANGED <<nodes, builder, ncalls, lindblad_model, mpo_builder>>

\* solve_ode(rhs, t_span, y0, method=method)
SolveOde(rhs, method) ==
    /\ call' = [fn |-> "solve_ode", generator |-> rhs, method |-> method]
    /\ ret' = solve_ode(rhs, method)
    /\ UNCHANGED <<nodes, builder, ncalls, lindblad_model, mpo_builder>>

NextSolve ==
    \E generator \in Generators, method \in Methods :
        \/ SolveLmde(generator, method)
        \/ SolveOde(generator, method)

SpecSolve == Init /\ [][NextSolve]_vars

----------------------------------------------------------------------------
(* C26: the outcomes of solve_lmde *)

\* The outcome is a result of one of the solvers of solve_lmde.
LmdeResult ==
    /\ ret.kind = "OdeResult"
    /\ ret.value.solved_by = "solve_lmde"
    /\ \E i \in 1..Len(ret.value.ran) :
           ret.value.ran[i] \in {"scipy_expm_solver", "jax_expm_solver"}

\* The outcome is what solve_ode gives for the same generator and method.
SolveOdeResult ==
    /\ ret.kind = "OdeResult"
    /\ ret.value.solved_by = "solve_ode"
    /\ ret = solve_ode(call.generator, call.method)

QiskitErrorRaised == ret.kind = "raise" /\ ret.error = "QiskitError"

\* C26: solve_lmde raises QiskitError, nothing having run, for a LindbladModel
\* whose evaluation mode is not vectorized with the method 'scipy_expm' or
\* 'jax_expm'; for a method outside LMDE_METHODS it gives the result of
\* solve_ode exactly when the method is in ODE_METHODS or is a subclass of
\* OdeSolver, and raises QiskitError otherwise; every call ends in exactly one
\* of a result of an LMDE solver, the result of solve_ode, and QiskitError.
C26_SolveLmdeOutcomes ==
    call.fn = "solve_lmde" =>
        LET lindblad_not_vectorized ==
                /\ call.generator.class = "LindbladModel"
                /\ call.generator.evaluation_mode \in {"dense", "sparse"}
            lmde == call.method \in {Method("str", "scipy_expm"), Method("str", "jax_expm")}
            ode == \/ call.method.type = "OdeSolver subclass"
                   \/ /\ call.method.type = "str"
                      /\ call.method.name \in {"RK45", "RK23", "BDF", "DOP853", "Radau",
                                               "LSODA", "jax_odeint"}
        IN  /\ (lindblad_not_vectorized /\ lmde) => QiskitErrorRaised
            /\ ~lmde => (SolveOdeResult <=> ode) /\ (QiskitErrorRaised <=> ~ode)
            /\ (lmde /\ ~lindblad_not_vectorized) => LmdeResult
            /\ \/ LmdeResult /\ ~SolveOdeResult /\ ~QiskitErrorRaised
               \/ ~LmdeResult /\ SolveOdeResult /\ ~QiskitErrorRaised
               \/ ~LmdeResult /\ ~SolveOdeResult /\ QiskitErrorRaised

\* solve_lmde was called with a LindbladModel in the evaluation mode 'dense'
\* and the method 'scipy_expm', and raised.
C26_Witness ==
    /\ call.fn = "solve_lmde"
    /\ call.generator = Generator("LindbladModel", "dense")
    /\ call.method = Method("str", "scipy_expm")
    /\ QiskitErrorRaised


----------------------------------------------------------------------------
(* LindbladMPOSimulationBuilder (builders/lindbladmpo_simulation_builder.py) *)

\* The operators of a simulation definition are held as the dictionaries
\* their flattening gives: a dictionary is the sequence of its (key tuple,
\* coefficient) items, in order, with distinct key tuples, and a key has a
\* system_id and an s_type.  The coefficients are real integers.
MPOKey(system_id, s_type) == [s_type |-> s_type,
                              system_id |-> system_id]

\* What a simulation definition holds as hamiltonian_operators or
\* noise_operators: a list of operators, or one operator that is not in a list.
Operators(type, items) == [type |-> type, items |-> items]

SimulationDef(hamiltonian_operators, noise_operators) ==
    [hamiltonian_operators |-> hamiltonian_operators,
     noise_operators |-> noise_operators]

h_a_op == <<"x", "y", "z">>
g_j_op == <<"sp", "sm", "z">>

op_names_set(op_names) == {op_names[i] : i \in 1..Len(op_names)}

\* self._sys_indexes.get(system_id, None), the indexes being those of
\* enumerate(subsystem_dims)
sys_indexes_get(subsystem_dims, system_id) ==
    IF \E i \in 1..Len(subsystem_dims) : subsystem_dims[i][1] = system_id
    THEN Some((CHOOSE i \in 1..Len(subsystem_dims) :
                   subsystem_dims[i][1] = system_id) - 1)
    ELSE None

Validated(b_unsupported, missing_key, i_sys) ==
    [b_unsupported |-> b_unsupported, missing_key |-> missing_key, i_sys |-> i_sys]

\* _validate_key without the test of key.s_type
validate_key_any_type(subsystem_dims, key, op_names) ==
    IF sys_indexes_get(subsystem_dims, key.system_id) = None
    THEN Validated(FALSE, Some(key.system_id), None)
    ELSE Validated(FALSE, None, sys_indexes_get(subsystem_dims, key.system_id))

\* _validate_key
validate_key(subsystem_dims, key, op_names) ==
    IF key.s_type \notin op_names_set(op_names)
    THEN Validated(TRUE, None, None)
    ELSE IF sys_indexes_get(subsystem_dims, key.system_id) = None
    THEN Validated(FALSE, Some(key.system_id), None)
    ELSE Validated(FALSE, None, sys_indexes_get(subsystem_dims, key.system_id))

\* _raise_validations: the exception it raises, or None.
raise_validations(b_unsupported, b_identity_bond, missing_key, key_tuple, b_dissipator) ==
    IF b_unsupported
    THEN Raise("Exception", <<"unsupported",
               IF b_dissipator THEN "dissipator" ELSE "or two-qubit Hamiltonian",
               key_tuple>>)
    ELSE IF b_identity_bond
    THEN Raise("Exception", <<"identity bond", key_tuple>>)
    ELSE IF missing_key # None
    THEN Raise("Exception", <<"missing id", missing_key[1]>>)
    ELSE Return("None", <<>>)

\* The arrays build accumulates into: h_a and g_j hold one vector and J_aa
\* one matrix per operator name, all zeros at first.
Accumulated(h_a, J_aa, g_j) == [h_a |-> h_a, J_aa |-> J_aa, g_j |-> g_j]

zeros(n_qubits) ==
    Accumulated([a \in op_names_set(h_a_op) |-> [i \in 0..(n_qubits - 1) |-> 0]],
                [a \in op_names_set(h_a_op) |->
                    [ij \in (0..(n_qubits - 1)) \X (0..(n_qubits - 1)) |-> 0]],
                [j \in op_names_set(g_j_op) |-> [i \in 0..(n_qubits - 1) |-> 0]])

\* One pass of a term loop: what the validation raised (or None) and the
\* arrays after the term.
Step(raised, acc) == [acc |-> acc,
                      raised |-> raised]

\* h_a[key.s_type][i_sys] += val
add_h_a(acc, s_type, i_sys, val) ==
    [acc EXCEPT !.h_a[s_type][i_sys] = @ + val]

\* J_aa[key1.s_type][i_sys1, i_sys2] += val
add_J_aa(acc, s_type, i_sys1, i_sys2, val) ==
    [acc EXCEPT !.J_aa[s_type][<<i_sys1, i_sys2>>] = @ + val]

\* g_j[key.s_type][i_sys] += val
add_g_j(acc, s_type, i_sys, val) ==
    [acc EXCEPT !.g_j[s_type][i_sys] = @ + val]

\* build, lines 69-73: a key tuple of length 1 of the Hamiltonian
single_term(v, acc, key_tuple, val) ==
    Step(raise_validations(v.b_unsupported, FALSE, v.missing_key, key_tuple, FALSE),
         IF v.i_sys # None
         THEN add_h_a(acc, key_tuple[1].s_type, v.i_sys[1], val)
         ELSE acc)

\* build, lines 78-86: the second key of a key tuple of length 2, the first
\* key having the index i_sys1
pair_second(i_sys1, v2, acc, key_tuple, val) ==
    IF v2.i_sys = None
    THEN Step(raise_validations(v2.b_unsupported, FALSE, v2.missing_key,
                                key_tuple, FALSE), acc)
    ELSE IF key_tuple[1].s_type # key_tuple[2].s_type
    THEN Step(raise_validations(TRUE, FALSE, v2.missing_key, key_tuple, FALSE), acc)
    ELSE IF i_sys1 = v2.i_sys[1]
    THEN Step(raise_validations(v2.b_unsupported, TRUE, v2.missing_key,
                                key_tuple, FALSE), acc)
    ELSE Step(raise_validations(v2.b_unsupported, FALSE, v2.missing_key,
                                key_tuple, FALSE),
              add_J_aa(acc, key_tuple[1].s_type, i_sys1, v2.i_sys[1], val))

\* build, lines 74-86: a key tuple of length 2 of the Hamiltonian
pair_term(subsystem_dims, v1, acc, key_tuple, val) ==
    IF v1.i_sys = None
    THEN Step(raise_validations(v1.b_unsupported, FALSE, v1.missing_key,
                                key_tuple, FALSE), acc)
    ELSE pair_second(v1.i_sys[1],
                     validate_key(subsystem_dims, key_tuple[2], h_a_op),
                     acc, key_tuple, val)

\* build, lines 65-90: one item of a Hamiltonian dictionary
hamiltonian_term(subsystem_dims, acc, key_tuple, val) ==
    IF Len(key_tuple) = 1
    THEN single_term(validate_key(subsystem_dims, key_tuple[1], h_a_op),
                     acc, key_tuple, val)
    ELSE IF Len(key_tuple) = 2
    THEN pair_term(subsystem_dims,
                   validate_key(subsystem_dims, key_tuple[1], h_a_op),
                   acc, key_tuple, val)
    ELSE Step(raise_validations(TRUE, FALSE, None, key_tuple, FALSE), acc)

\* build, lines 100-104: a key tuple of length 1 of the noise
noise_single_term(v, acc, key_tuple, val) ==
    Step(raise_validations(v.b_unsupported, FALSE, v.missing_key, key_tuple, TRUE),
         IF v.i_sys # None
         THEN add_g_j(acc, key_tuple[1].s_type, v.i_sys[1], val)
         ELSE acc)

\* build, lines 96-108: one item of a noise dictionary
noise_term(subsystem_dims, acc, key_tuple, val) ==
    IF Len(key_tuple) = 1
    THEN noise_single_term(validate_key(subsystem_dims, key_tuple[1], g_j_op),
                           acc, key_tuple, val)
    ELSE Step(raise_validations(TRUE, FALSE, None, key_tuple, TRUE), acc)

term(subsystem_dims, acc, key_tuple, val, b_dissipator) ==
    IF b_dissipator
    THEN noise_term(subsystem_dims, acc, key_tuple, val)
    ELSE hamiltonian_term(subsystem_dims, acc, key_tuple, val)

\* The loops `for op_dict in ops: for key_tuple, val in op_dict.items()`,
\* from item i of dictionary k on; the first exception ends them.
RECURSIVE terms_loop(_, _, _, _, _, _)
terms_next(subsystem_dims, step, ops, k, i, b_dissipator) ==
    IF step.raised.kind = "raise"
    THEN step
    ELSE terms_loop(subsystem_dims, step.acc, ops, k, i + 1, b_dissipator)

terms_loop(subsystem_dims, acc, ops, k, i, b_dissipator) ==
    IF k > Len(ops)
    THEN Step(Return("None", <<>>), acc)
    ELSE IF i > Len(ops[k])
    THEN terms_loop(subsystem_dims, acc, ops, k + 1, 1, b_dissipator)
    ELSE terms_next(subsystem_dims,
                    term(subsystem_dims, acc, ops[k][i][1], ops[k][i][2],
                         b_dissipator),
                    ops, k, i, b_dissipator)

\* _build_ops: the dictionaries of the operators, or what it raises.  An
\* empty list leaves op_type None, and issubclass(None, DynamicalOperator)
\* raises a TypeError before op_type is compared with None.
build_ops(ops) ==
    IF ops.type # "list"
    THEN Raise("Exception", <<"must be passed as a list">>)
    ELSE IF Len(ops.items) = 0
    THEN Raise("TypeError", <<"issubclass() arg 1 must be a class">>)
    ELSE Return("list", ops.items)

\* build, lines 109-116: the first pair of qubits, in the order of the two
\* loops, whose XX and YY coefficients differ by more than
\* EQUALITY_PRECISION (on integers: that differ)
xx_yy_differ(acc, subsystem_dims) ==
    {ij \in (0..(Len(subsystem_dims) - 1)) \X (0..(Len(subsystem_dims) - 1)) :
        acc.J_aa["x"][ij] # acc.J_aa["y"][ij]}

first_pair(pairs) ==
    CHOOSE ij \in pairs :
        \A other \in pairs :
            \/ ij[1] < other[1]
            \/ ij[1] = other[1] /\ ij[2] <= other[2]

\* build, lines 117-124
params(n_qubits, acc) ==
    [J |-> acc.J_aa["x"],
     N |-> n_qubits,
     h_x |-> acc.h_a["x"],
     h_y |-> acc.h_a["y"],
     h_z |-> acc.h_a["z"],
     g_0 |-> acc.g_j["sp"],
     g_1 |-> acc.g_j["sm"],
     g_2 |-> acc.g_j["z"],
     J_z |-> acc.J_aa["z"],
     l_x |-> 0]

\* What a call of build leaves: what it returned or raised, and solver_params.
Built(returned, params_after) == [solver_params |-> params_after,
                                  ret |-> returned]

\* build, lines 109-125
build_params(old, subsystem_dims, acc) ==
    IF xx_yy_differ(acc, subsystem_dims) # {}
    THEN Built(Raise("Exception",
                     <<"XX and YY differ",
                       subsystem_dims[first_pair(xx_yy_differ(acc, subsystem_dims))[1] + 1][1],
                       subsystem_dims[first_pair(xx_yy_differ(acc, subsystem_dims))[2] + 1][1]>>),
               old)
    ELSE Built(Return("None", <<>>), Some(params(Len(subsystem_dims), acc)))

\* build, lines 94-108, L_ops being what _build_ops gave for the noise
build_noise_terms(old, subsystem_dims, step) ==
    IF step.raised.kind = "raise"
    THEN Built(step.raised, old)
    ELSE build_params(old, subsystem_dims, step.acc)

build_noise_ops(old, subsystem_dims, acc, L_ops) ==
    IF L_ops.kind = "raise"
    THEN Built(L_ops, old)
    ELSE build_noise_terms(old, subsystem_dims,
                           terms_loop(subsystem_dims, acc, L_ops.value, 1, 1, TRUE))

\* build, lines 92-93
build_noise(old, sim_def, subsystem_dims, step) ==
    IF step.raised.kind = "raise"
    THEN Built(step.raised, old)
    ELSE IF sim_def.noise_operators = None
    THEN build_params(old, subsystem_dims, step.acc)
    ELSE build_noise_ops(old, subsystem_dims, step.acc,
                         build_ops(sim_def.noise_operators[1]))

\* build, lines 46-90, H_ops being what _build_ops gave for the Hamiltonian
build_hamiltonian(old, sim_def, subsystem_dims, H_ops) ==
    IF H_ops.kind = "raise"
    THEN Built(H_ops, old)
    ELSE IF \E i \in 1..Len(subsystem_dims) : subsystem_dims[i][2] # 2
    THEN Built(Raise("Exception", <<"must be two-level systems">>), old)
    ELSE build_noise(old, sim_def, subsystem_dims,
                     terms_loop(subsystem_dims, zeros(Len(subsystem_dims)),
                                H_ops.value, 1, 1, FALSE))

\* LindbladMPOSimulationBuilder.build(subsystem_dims) on a builder whose
\* solver_params is old; prune_subsystems only reaches the flattening.
build(old, sim_def, subsystem_dims) ==
    build_hamiltonian(old, sim_def, subsystem_dims,
                      build_ops(sim_def.hamiltonian_operators))

\* LindbladMPOSimulationBuilder(sim_def)
NewLindbladMPOSimulationBuilder(sim_def) ==
    /\ call' = [fn |-> "LindbladMPOSimulationBuilder",
                subsystem_dims |-> <<>>,
                sim_def |-> sim_def]
    /\ ret' = Return("LindbladMPOSimulationBuilder", <<>>)
    /\ self_sim_def' = Some(sim_def)
    /\ solver_params' = None
    /\ UNCHANGED <<nodes, builder, ncalls, lindblad_model>>

MPOBuilt(built, subsystem_dims) ==
    /\ call' = [fn |-> "build",
                subsystem_dims |-> subsystem_dims,
                sim_def |-> self_sim_def[1]]
    /\ ret' = built.ret
    /\ solver_params' = built.solver_params
    /\ UNCHANGED <<nodes, builder, ncalls, lindblad_model, self_sim_def>>

\* builder.build(subsystem_dims)
Build(subsystem_dims) ==
    /\ self_sim_def # None
    /\ MPOBuilt(build(solver_params, self_sim_def[1], subsystem_dims),
                subsystem_dims)


\* The key tuples of the runs: the identifiers "0" and "1" are those the
\* subsystem maps declare, "2" is declared by none of them.
KeyX0 == <<MPOKey("0", "x")>>
KeyZ1 == <<MPOKey("1", "z")>>
KeySp0 == <<MPOKey("0", "sp")>>
KeyX2 == <<MPOKey("2", "x")>>
KeyX0X1 == <<MPOKey("0", "x"), MPOKey("1", "x")>>
KeyY0Y1 == <<MPOKey("0", "y"), MPOKey("1", "y")>>
KeyZ1Z0 == <<MPOKey("1", "z"), MPOKey("0", "z")>>
KeyX0Z1 == <<MPOKey("0", "x"), MPOKey("1", "z")>>
KeyX0X0 == <<MPOKey("0", "x"), MPOKey("0", "x")>>
KeyX0X2 == <<MPOKey("0", "x"), MPOKey("2", "x")>>
KeyX2X0 == <<MPOKey("2", "x"), MPOKey("0", "x")>>
KeyX0Sp1 == <<MPOKey("0", "x"), MPOKey("1", "sp")>>
KeyX0X1Z0 == <<MPOKey("0", "x"), MPOKey("1", "x"), MPOKey("0", "z")>>
KeySm1 == <<MPOKey("1", "sm")>>
KeyZ0 == <<MPOKey("0", "z")>>
KeySp2 == <<MPOKey("2", "sp")>>
KeySp0Sp1 == <<MPOKey("0", "sp"), MPOKey("1", "sp")>>

HamiltonianItems ==
    {<<KeyX0, 1>>, <<KeyX0, 2>>, <<KeyZ1, 1>>, <<KeySp0, 1>>, <<KeyX2, 1>>, <<KeyX0X1, 1>>,
     <<KeyX0X1, 2>>, <<KeyY0Y1, 1>>, <<KeyZ1Z0, 1>>, <<KeyX0Z1, 1>>, <<KeyX0X0, 1>>,
     <<KeyX0X2, 1>>, <<KeyX2X0, 1>>, <<KeyX0Sp1, 1>>, <<KeyX0X1Z0, 1>>, <<<<>>, 1>>}

TwoItemDictionaries ==
    {<<a, b>> : a, b \in {<<KeyX0, 1>>, <<KeyX0X1, 1>>, <<KeyY0Y1, 1>>, <<KeySp0, 1>>}}
        \ {<<a, a>> : a \in HamiltonianItems}

HamiltonianLists ==
    {<<<<a>>>> : a \in HamiltonianItems}
        \cup {<<<<a>>, <<b>>>> : a, b \in HamiltonianItems}
        \cup {<<d>> : d \in TwoItemDictionaries}

NoiseItems ==
    {<<KeySp0, 1>>, <<KeySm1, 1>>, <<KeyZ0, 2>>, <<KeyX0, 1>>, <<KeySp2, 1>>, <<KeySp0Sp1, 1>>,
     <<<<>>, 1>>}

NoiseOperators ==
    {Operators("list", <<<<a>>>>) : a \in NoiseItems}
        \cup {Operators("list", <<<<a>>, <<b>>>>) :
                  a, b \in {<<KeySp0, 1>>, <<KeyZ0, 2>>}}
        \cup {Operators("list", <<>>), Operators("DynamicalOperator", <<>>)}

SimulationDefs ==
    {SimulationDef(Operators("list", h), None) : h \in HamiltonianLists}
        \cup {SimulationDef(Operators("list", h), Some(n)) :
                  h \in {<<<<<<KeyX0, 1>>>>>>, <<<<<<KeyX0X1, 1>>>>, <<<<KeyY0Y1, 1>>>>>>},
                  n \in NoiseOperators}
        \cup {SimulationDef(Operators("list", <<>>), None),
              SimulationDef(Operators("DynamicalOperator", <<>>), None)}

\* The subsystem maps of the runs, as the (id, dimension) items of the
\* OrderedDict.
SubsystemDims ==
    {<<<<"0", 2>>, <<"1", 2>>>>, <<<<"1", 2>>, <<"0", 2>>>>, <<<<"0", 2>>>>,
     <<<<"0", 2>>, <<"1", 3>>>>}

NextMPO ==
    \/ \E sim_def \in SimulationDefs : NewLindbladMPOSimulationBuilder(sim_def)
    \/ \E subsystem_dims \in SubsystemDims : Build(subsystem_dims)

SpecMPO == Init /\ [][NextMPO]_vars


----------------------------------------------------------------------------
(* C27: the terms LindbladMPOSimulationBuilder.build accepts *)

\* The (key tuple, coefficient) items of a list of dictionaries, in order.
RECURSIVE ItemsOf(_, _)
ItemsOf(dicts, k) ==
    IF k > Len(dicts) THEN <<>> ELSE dicts[k] \o ItemsOf(dicts, k + 1)

HamiltonianItemsOf(sim_def) == ItemsOf(sim_def.hamiltonian_operators.items, 1)

NoiseItemsOf(sim_def) ==
    IF sim_def.noise_operators = None
    THEN <<>>
    ELSE ItemsOf(sim_def.noise_operators[1].items, 1)

\* The sum of the coefficients the items give to one key tuple.
RECURSIVE Total(_, _, _)
Total(items, key_tuple, i) ==
    IF i > Len(items)
    THEN 0
    ELSE (IF items[i][1] = key_tuple THEN items[i][2] ELSE 0)
             + Total(items, key_tuple, i + 1)

Registered(subsystem_dims, system_id) ==
    \E i \in 1..Len(subsystem_dims) : subsystem_dims[i][1] = system_id

IdAt(subsystem_dims, i) == subsystem_dims[i + 1][1]

Qubits(subsystem_dims) == 0..(Len(subsystem_dims) - 1)

\* The lists _build_ops takes: a non-empty list for the Hamiltonian, and no
\* noise or a non-empty list for it.
ListsGiven(sim_def) ==
    /\ sim_def.hamiltonian_operators.type = "list"
    /\ Len(sim_def.hamiltonian_operators.items) > 0
    /\ sim_def.noise_operators # None =>
           /\ sim_def.noise_operators[1].type = "list"
           /\ Len(sim_def.noise_operators[1].items) > 0

AllTwoLevel(subsystem_dims) ==
    \A i \in 1..Len(subsystem_dims) : subsystem_dims[i][2] = 2

\* The solver parameters the items add up to.
ExpectedParams(sim_def, subsystem_dims) ==
    [J |-> [ij \in Qubits(subsystem_dims) \X Qubits(subsystem_dims) |->
               Total(HamiltonianItemsOf(sim_def),
                     <<MPOKey(IdAt(subsystem_dims, ij[1]), "x"),
                       MPOKey(IdAt(subsystem_dims, ij[2]), "x")>>, 1)],
     N |-> Len(subsystem_dims),
     h_x |-> [i \in Qubits(subsystem_dims) |->
                 Total(HamiltonianItemsOf(sim_def),
                       <<MPOKey(IdAt(subsystem_dims, i), "x")>>, 1)],
     h_y |-> [i \in Qubits(subsystem_dims) |->
                 Total(HamiltonianItemsOf(sim_def),
                       <<MPOKey(IdAt(subsystem_dims, i), "y")>>, 1)],
     h_z |-> [i \in Qubits(subsystem_dims) |->
                 Total(HamiltonianItemsOf(sim_def),
                       <<MPOKey(IdAt(subsystem_dims, i), "z")>>, 1)],
     g_0 |-> [i \in Qubits(subsystem_dims) |->
                 Total(NoiseItemsOf(sim_def),
                       <<MPOKey(IdAt(subsystem_dims, i), "sp")>>, 1)],
     g_1 |-> [i \in Qubits(subsystem_dims) |->
                 Total(NoiseItemsOf(sim_def),
                       <<MPOKey(IdAt(subsystem_dims, i), "sm")>>, 1)],
     g_2 |-> [i \in Qubits(subsystem_dims) |->
                 Total(NoiseItemsOf(sim_def),
                       <<MPOKey(IdAt(subsystem_dims, i), "z")>>, 1)],
     J_z |-> [ij \in Qubits(subsystem_dims) \X Qubits(subsystem_dims) |->
                 Total(HamiltonianItemsOf(sim_def),
                       <<MPOKey(IdAt(subsystem_dims, ij[1]), "z"),
                         MPOKey(IdAt(subsystem_dims, ij[2]), "z")>>, 1)],
     l_x |-> 0]

\* The condition of the statement: a Hamiltonian key tuple of length 1 or 2
\* (a noise key tuple of length 1) whose system ids are all registered.
RightLengthAndIds(subsystem_dims, key_tuple, lengths) ==
    /\ Len(key_tuple) \in lengths
    /\ \A i \in 1..Len(key_tuple) :
           Registered(subsystem_dims, key_tuple[i].system_id)

AllRightLengthAndIds(sim_def, subsystem_dims) ==
    /\ \A i \in 1..Len(HamiltonianItemsOf(sim_def)) :
           RightLengthAndIds(subsystem_dims, HamiltonianItemsOf(sim_def)[i][1], {1, 2})
    /\ \A i \in 1..Len(NoiseItemsOf(sim_def)) :
           RightLengthAndIds(subsystem_dims, NoiseItemsOf(sim_def)[i][1], {1})

SupportedHamiltonianTerm(subsystem_dims, key_tuple) ==
    /\ RightLengthAndIds(subsystem_dims, key_tuple, {1, 2})
    /\ \A i \in 1..Len(key_tuple) : key_tuple[i].s_type \in {"x", "y", "z"}
    /\ Len(key_tuple) = 2 =>
           /\ key_tuple[1].s_type = key_tuple[2].s_type
           /\ key_tuple[1].system_id # key_tuple[2].system_id

SupportedNoiseTerm(subsystem_dims, key_tuple) ==
    /\ RightLengthAndIds(subsystem_dims, key_tuple, {1})
    /\ key_tuple[1].s_type \in {"sp", "sm", "z"}

\* The calls of build that succeed: operators in non-empty lists, two-level
\* subsystems, supported terms only, and equal XX and YY sums for every pair
\* of subsystems.
Accepted(sim_def, subsystem_dims) ==
    /\ ListsGiven(sim_def)
    /\ AllTwoLevel(subsystem_dims)
    /\ \A i \in 1..Len(HamiltonianItemsOf(sim_def)) :
           SupportedHamiltonianTerm(subsystem_dims, HamiltonianItemsOf(sim_def)[i][1])
    /\ \A i \in 1..Len(NoiseItemsOf(sim_def)) :
           SupportedNoiseTerm(subsystem_dims, NoiseItemsOf(sim_def)[i][1])
    /\ \A i, j \in Qubits(subsystem_dims) :
           Total(HamiltonianItemsOf(sim_def),
                 <<MPOKey(IdAt(subsystem_dims, i), "x"),
                   MPOKey(IdAt(subsystem_dims, j), "x")>>, 1)
             = Total(HamiltonianItemsOf(sim_def),
                     <<MPOKey(IdAt(subsystem_dims, i), "y"),
                       MPOKey(IdAt(subsystem_dims, j), "y")>>, 1)

----------------------------------------------------------------------------
(* C28: a subsystem dimension other than 2 and the default provider *)

\* The first dimension of the map, in its order, that is not 2.
FirstOtherDimension(subsystems) ==
    subsystems[CHOOSE i \in 1..Len(subsystems) :
                   /\ subsystems[i][2] # 2
                   /\ \A j \in 1..(i - 1) : subsystems[j][2] = 2][2]

\* A call of build_matrices with operators (one, or a non-empty list) and a
\* map that declares a dimension other than 2.
OtherDimensionCall ==
    /\ call.fn = "build_matrices"
    /\ Len(call.operators.items) > 0
    /\ \E i \in 1..Len(call.subsystems) : call.subsystems[i][2] # 2

UnsupportedIdentity(dim) ==
    Raise("Operator type unknown or unsupported for matrix generation",
          <<<<"i">>, dim>>)

TypesAccepted(operators) ==
    /\ \A i \in 1..Len(operators) :
           operators[i].type \in {"dict", "DynamicalOperator"}
    /\ \A i, j \in 1..Len(operators) :
           (i < j /\ operators[i].type = "dict") =>
               operators[j].type = "dict"

----------------------------------------------------------------------------
(* C29: several calls on one OperatorBuilder *)

\* The largest number of calls on the one OperatorBuilder of a run of
\* repeated calls, and the largest number of operators such a run creates.
MaxBuilderCalls == 3
MaxOperands == 2

\* The providers build_matrices is given: none (the default), or an object of
\* a subclass of DynamicalOperator that inherits its matrices.
Providers == {None, Some("DynamicalOperatorSubclass")}

\* builder.build_matrices(operators, subsystems, dyn_op), one of several calls
\* on the builder
BuildMatricesWith(operators, subsystems, dyn_op) ==
    /\ ncalls < MaxBuilderCalls
    /\ ncalls' = ncalls + 1
    /\ call' = [operators |-> operators,
                subsystems |-> subsystems,
                dyn_op |-> dyn_op,
                fn |-> "build_matrices"]
    /\ Finish(build_matrices(nodes,
                             Builder(self_ids, self_identity_matrices,
                                     self_subsystems, self_total_dim, self_dyn_op),
                             operators, subsystems, dyn_op))
    /\ UNCHANGED <<nodes, lindblad_model, mpo_builder>>

\* builder.build_dictionaries(operators), one of several calls on the builder
BuildDictionariesAgain(operators) ==
    /\ ncalls < MaxBuilderCalls
    /\ ncalls' = ncalls + 1
    /\ call' = [operators |-> operators,
                subsystems |-> <<>>,
                dyn_op |-> None,
                fn |-> "build_dictionaries"]
    /\ ret' = build_dictionaries(nodes, operators)
    /\ UNCHANGED <<nodes, builder, lindblad_model, mpo_builder>>

\* The operators are created first, then the builder is called repeatedly.
NextRepeated ==
    \/ \E leaf \in {<<"0", <<"x">>>>, <<"1", <<"z">>>>} :
           /\ ncalls = 0
           /\ Len(nodes) < MaxOperands
           /\ Construct(leaf[1], leaf[2])
    \/ \E operators \in DictionaryInputs(nodes) : BuildDictionariesAgain(operators)
    \/ \E operators \in MatrixInputs(nodes), subsystems \in SubsystemMaps,
          dyn_op \in Providers :
           BuildMatricesWith(operators, subsystems, dyn_op)

SpecRepeated == Init /\ [][NextRepeated]_vars

\* The outcome and the provider of a call are those of the call made on a new
\* OperatorBuilder, whose outcome and fields are fresh.
SameAsOnNewBuilder(fresh, ret_after, subsystems, dyn_op_after) ==
    /\ ret_after = fresh.ret
    /\ Len(subsystems) > 0 => dyn_op_after = fresh.self.dyn_op

\* C29: whatever calls of build_matrices and build_dictionaries were made on
\* an OperatorBuilder before, with whatever maps and providers and whether
\* they returned or raised, a call of build_matrices returns or raises what
\* the same call returns or raises on a new OperatorBuilder, and the provider
\* the builder holds after a call with a map that is not empty is the call's.
C29_OutcomeDependsOnArgumentsOnly ==
    [][call'.fn = "build_matrices" =>
          SameAsOnNewBuilder(
              build_matrices(nodes', OperatorBuilder, call'.operators,
                             call'.subsystems, call'.dyn_op),
              ret', call'.subsystems, self_dyn_op')]_vars

\* A later call with an empty operator list, on a builder that still holds
\* the ids of the other map of an earlier call, returned the zeros matrix of
\* its own map.
C29_Witness ==
    /\ call.fn = "build_matrices"
    /\ ncalls > 1
    /\ Len(call.operators.items) = 0
    /\ Len(call.subsystems) > 0
    /\ self_ids # None
    /\ self_ids # Some(keys_of(call.subsystems))
    /\ ret = Return("matrix",
                    get_zeros_matrix(total_dim_loop(values_of(call.subsystems),
                                                    Len(call.subsystems))))

====
